---------------------------- MODULE Spec2Model ----------------------------
(***************************************************************************)
(* A model of the ReVanced patcher GUI: the modular application            *)
(* (src/src/core/*.py, src/src/revanced_gui.py) and the monolithic         *)
(* variant (src/gui.py).                                                   *)
(*                                                                         *)
(* Text is modelled as a sequence of fragments; a fragment is one          *)
(* character, or a run of characters that no parsing step looks into.      *)
(* Byte counts are kept in units of 2^28 bytes, so that 1024**3 bytes are  *)
(* 4 units.                                                                *)
(***************************************************************************)
EXTENDS Integers, Sequences, FiniteSets, TLC

VARIABLES
    variant,      \* "modular" (src/src) or "gui" (src/gui.py)
    vin,          \* the inputs of one validation pass
    vout,         \* the error list validate_inputs returned
    vpc,          \* "ready" before the pass, "done" after it
    jver,         \* a text handed to parse_java_version, and what it returned
    gui,          \* the path variables of the window (tk.StringVar)
    machine,      \* the runtime and disk the validator finds
    jobs,         \* one record per patch job started, in order of start
    retry_count,  \* ReVancedGUI.retry_count of src/gui.py
    uiQueue,      \* callbacks handed to root.after(0, ...), not yet run
    progress,     \* whether the progress bar is running
    surfaced,     \* the errors the last patch_apk showed in dialogs
    workerUiOps,  \* UI-mutating functions called directly on a worker thread
    log,          \* what log_message received and the dialogs shown, in order;
                  \* of each job, what came since its latest child was launched
    now,          \* the clock time.time() reads
    start_time,   \* the start_time attribute the success message is computed from
    scope,        \* the runs followed: how many jobs are started, how many
                  \* lines a child prints at most, the exit codes of a child,
                  \* whether the callbacks the worker calls may raise
    cm,           \* ConfigManager.save_logs_enabled, .save_config_enabled
    window,       \* the geometry of the main window, as root.geometry() gives it
    disk,         \* config.json and config.tmp: whether each exists, its content
    cfg,          \* the session: position in save_config, what load_config did
    lastSave,     \* the record of the last save_config call and how it ended
    recent,       \* src/gui.py: the recent-files lists, their file, the
                  \* exceptions save_recent_files / load_recent_files caught,
                  \* and the call made last
    mon           \* the CPU sampler: the monitoring flag, the thread's position

valVars == <<vin, vout, vpc, jver>>
runVars == <<gui, machine, jobs, retry_count, uiQueue, progress, surfaced,
             workerUiOps, log, now, start_time, scope>>

cfgVars == <<cm, window, disk, cfg, lastSave, recent, mon>>

Variants == {"modular", "gui"}

-----------------------------------------------------------------------------
(* Text helpers: str.strip, str.startswith, str.split, int().              *)

Whitespace == {" "}
Quote == {"\""}
DigitChars == {"0", "1", "2", "3", "4", "5", "6", "7", "8", "9"}

DigitVal(c) ==
    CASE c = "0" -> 0 [] c = "1" -> 1 [] c = "2" -> 2 [] c = "3" -> 3
      [] c = "4" -> 4 [] c = "5" -> 5 [] c = "6" -> 6 [] c = "7" -> 7
      [] c = "8" -> 8 [] c = "9" -> 9

DigitChar(d) ==
    CASE d = 0 -> "0" [] d = 1 -> "1" [] d = 2 -> "2" [] d = 3 -> "3"
      [] d = 4 -> "4" [] d = 5 -> "5" [] d = 6 -> "6" [] d = 7 -> "7"
      [] d = 8 -> "8" [] d = 9 -> "9"

RECURSIVE LStrip(_, _)
LStrip(s, cs) ==
    IF s # <<>> /\ Head(s) \in cs THEN LStrip(Tail(s), cs) ELSE s

RECURSIVE RStrip(_, _)
RStrip(s, cs) ==
    IF s # <<>> /\ s[Len(s)] \in cs
    THEN RStrip(SubSeq(s, 1, Len(s) - 1), cs)
    ELSE s

Strip(s, cs) == RStrip(LStrip(s, cs), cs)

StartsWith(s, p) == Len(s) >= Len(p) /\ SubSeq(s, 1, Len(p)) = p

RECURSIVE SplitAcc(_, _, _)
SplitAcc(s, sep, cur) ==
    IF s = <<>> THEN <<cur>>
    ELSE IF Head(s) = sep
         THEN <<cur>> \o SplitAcc(Tail(s), sep, <<>>)
         ELSE SplitAcc(Tail(s), sep, Append(cur, Head(s)))

Split(s, sep) == SplitAcc(s, sep, <<>>)

RECURSIVE DigitsValue(_, _)
DigitsValue(s, acc) ==
    IF s = <<>> THEN acc
    ELSE IF Head(s) = "_" THEN DigitsValue(Tail(s), acc)
         ELSE DigitsValue(Tail(s), acc * 10 + DigitVal(Head(s)))

\* int(text): surrounding whitespace and one sign are accepted, then digits,
\* single underscores allowed between digits.  ok = FALSE is ValueError.
PyInt(s) ==
    LET t == Strip(s, Whitespace)
        signed == t # <<>> /\ Head(t) \in {"+", "-"}
        body == IF signed THEN Tail(t) ELSE t
        wellFormed ==
            /\ body # <<>>
            /\ \A i \in 1..Len(body) : body[i] \in DigitChars \cup {"_"}
            /\ body[1] # "_" /\ body[Len(body)] # "_"
            /\ \A i \in 1..(Len(body) - 1) : ~(body[i] = "_" /\ body[i + 1] = "_")
    IN IF wellFormed
       THEN [ok |-> TRUE,
             val |-> IF signed /\ Head(t) = "-"
                     THEN 0 - DigitsValue(body, 0)
                     ELSE DigitsValue(body, 0)]
       ELSE [ok |-> FALSE, val |-> 0]

\* the decimal text of a number 0..99 (an f-string's {n})
IntToStr(n) ==
    IF n < 10 THEN <<DigitChar(n)>>
    ELSE <<DigitChar(n \div 10), DigitChar(n % 10)>>

-----------------------------------------------------------------------------
(* JavaManager                                                             *)

parse_java_version_alwaysFirstField(version_string) ==
    LET version == Strip(Strip(version_string, Whitespace), Quote)
        parts == Split(version, ".")
    IN IF PyInt(parts[1]).ok THEN PyInt(parts[1]).val ELSE 0

\* The excepts take ValueError (int) and IndexError (the subscript), the only
\* exceptions the try block raises on a str: every call returns an int.
parse_java_version(version_string) ==
    LET version == Strip(Strip(version_string, Whitespace), Quote)
        parts == Split(version, ".")
        field == IF StartsWith(version, <<"1", ".">>) THEN 2 ELSE 1
    IN IF field > Len(parts) THEN 0                    \* IndexError
       ELSE IF PyInt(parts[field]).ok THEN PyInt(parts[field]).val
            ELSE 0                                     \* ValueError

\* What `java -version` can do: the launcher is missing, it does not answer in
\* time, its first stderr line holds no  version "..."  text, or it holds the
\* quoted version text ver.
JavaMissing == [kind |-> "missing", ver |-> <<>>]
JavaTimeout == [kind |-> "timeout", ver |-> <<>>]
JavaUnrecognized == [kind |-> "unrecognized", ver |-> <<>>]
JavaReports(v) == [kind |-> "version", ver |-> v]

check_java_installation(java) ==
    CASE java.kind = "timeout" -> [ok |-> FALSE, info |-> <<"Java check timeout">>]
      [] java.kind = "missing" -> [ok |-> FALSE, info |-> <<"Java not found in PATH">>]
      [] java.kind = "unrecognized" ->
            [ok |-> FALSE, info |-> <<"Version format not recognized">>]
      [] OTHER ->
            LET version_str == java.ver
                major_version == parse_java_version(version_str)
            IN IF major_version >= 8
               THEN [ok |-> TRUE,
                     info |-> version_str \o <<" (Java ">>
                                \o IntToStr(major_version) \o <<")">>]
               ELSE [ok |-> FALSE,
                     info |-> <<"Unsupported: ">> \o version_str
                                \o <<" (need Java 8+)">>]

validate_java_version_compatibility(java) ==
    LET checked == check_java_installation(java)
        version_num == parse_java_version(checked.info)
    IN IF checked.ok /\ version_num < 11
       THEN [ok |-> FALSE,
             info |-> <<"Java ">> \o IntToStr(version_num)
                        \o <<" detected. ReVanced CLI may require Java 11+">>]
       ELSE checked

-----------------------------------------------------------------------------
(* The file system and the machine the validator looks at.                 *)

\* The paths the model draws from.
NoText == <<>>
CliJar == <<"/", "tools", "/", "cli", ".", "jar">>
GoneJar == <<"/", "tools", "/", "gone", ".", "jar">>
BadJar == <<"/", "tools", "/", "bad", ".", "jar">>
NoManifestJar == <<"/", "tools", "/", "nomanifest", ".", "jar">>
PatchesRvp == <<"/", "tools", "/", "patches", ".", "rvp">>
GoneRvp == <<"/", "tools", "/", "gone", ".", "rvp">>
AppApk == <<"/", "in", "/", "app", ".", "apk">>
GoneApk == <<"/", "in", "/", "gone", ".", "apk">>
BadApk == <<"/", "in", "/", "bad", ".", "apk">>
NoDexApk == <<"/", "in", "/", "nodex", ".", "apk">>
InDir == <<"/", "in">>
OutDir == <<"/", "out">>
GoneDir == <<"/", "gone">>

\* What is found at a path: nothing, a directory, a well-formed archive, an
\* archive without the entries the monolithic validator asks for, a file that
\* is no archive, or some other file.
FileKind(p) ==
    CASE p \in {CliJar, AppApk} -> "zip_ok"
      [] p \in {NoManifestJar, NoDexApk} -> "zip_incomplete"
      [] p \in {BadJar, BadApk} -> "not_zip"
      [] p = PatchesRvp -> "plain"
      [] p \in {OutDir, InDir} -> "dir"
      [] OTHER -> "none"

path_exists(p) == FileKind(p) # "none"

CliPaths == {NoText, GoneJar, CliJar, BadJar, NoManifestJar}
PatchesPaths == {NoText, GoneRvp, PatchesRvp}
ApkPaths == {NoText, GoneApk, AppApk, BadApk, NoDexApk}
OutPaths == {NoText, GoneDir, OutDir}

JavaVersionTexts ==
    { <<"1", ".", "8", ".", "0", "_", "2", "9", "1">>,
      <<"1", ".", "7", ".", "0", "_", "8", "0">>,
      <<"9", ".", "0", ".", "4">>,
      <<"1", "0", ".", "0", ".", "2">>,
      <<"1", "1", ".", "0", ".", "1">>,
      <<"1", "7", ".", "0", ".", "2">>,
      <<"2", "1">>,
      <<"1", "7", "-", "e", "a">> }

JavaEnvs ==
    {JavaMissing, JavaTimeout, JavaUnrecognized}
        \cup {JavaReports(v) : v \in JavaVersionTexts}

GiB == 4

FreeUnits == {0, 3, 4, 7, 9}
ApkSizeUnits == {1, 2, 3}

\* psutil: whether the package is importable; diskOk: whether
\* psutil.disk_usage answers; free, total, apk_size: in units of 2^28 bytes.
TotalUnits == 12

Machines ==
    [java : JavaEnvs, psutil : {FALSE}, diskOk : {FALSE},
     free : {0}, total : {TotalUnits}, apk_size : {1}]
    \cup [java : JavaEnvs, psutil : {TRUE}, diskOk : {FALSE},
          free : {0}, total : {TotalUnits}, apk_size : {1}]
    \cup [java : JavaEnvs, psutil : {TRUE}, diskOk : {TRUE},
          free : FreeUnits, total : {TotalUnits}, apk_size : ApkSizeUnits]

\* SystemMonitor.get_disk_usage / ReVancedGUI.get_disk_usage
get_disk_usage(m) ==
    IF ~m.psutil \/ ~m.diskOk
    THEN [free_gb |-> 0, total_gb |-> 0]
    ELSE [free_gb |-> m.free \div GiB, total_gb |-> m.total \div GiB]

\* ReVancedGUI.validate_jar_file, validate_apk_file (src/gui.py)
validate_jar_file(p) ==
    CASE FileKind(p) = "zip_ok" -> [ok |-> TRUE, msg |-> <<"Valid JAR file">>]
      [] FileKind(p) = "zip_incomplete" ->
            [ok |-> FALSE, msg |-> <<"Invalid JAR: missing manifest">>]
      [] FileKind(p) = "not_zip" -> [ok |-> FALSE, msg |-> <<"Corrupted JAR file">>]
      [] OTHER -> [ok |-> FALSE, msg |-> <<"JAR validation error">>]

validate_apk_file(p) ==
    CASE FileKind(p) = "zip_ok" -> [ok |-> TRUE, msg |-> <<"Valid APK file">>]
      [] FileKind(p) = "zip_incomplete" ->
            [ok |-> FALSE, msg |-> <<"Invalid APK: missing classes.dex">>]
      [] FileKind(p) = "not_zip" -> [ok |-> FALSE, msg |-> <<"Corrupted APK file">>]
      [] OTHER -> [ok |-> FALSE, msg |-> <<"APK validation error">>]

Err(kind, msg) == <<[kind |-> kind, msg |-> msg]>>

When(cond, errs) == IF cond THEN errs ELSE <<>>

\* "Check Java"
JavaErrors(m) ==
    LET j == validate_java_version_compatibility(m.java)
    IN When(~j.ok, Err("java_not_found", j.info))

\* "Check files exist": one operator per path, in the order of the code
CliErrors(v, cli_jar_path) ==
    IF cli_jar_path = NoText \/ ~path_exists(cli_jar_path)
    THEN Err("file_not_found", <<"ReVanced CLI JAR file not found">>)
    ELSE When(v = "gui" /\ ~validate_jar_file(cli_jar_path).ok,
              Err("corrupted_apk",
                  <<"CLI JAR: ">> \o validate_jar_file(cli_jar_path).msg))

PatchesErrors(patches_rvp_path) ==
    When(patches_rvp_path = NoText \/ ~path_exists(patches_rvp_path),
         Err("file_not_found", <<"Patches RVP file not found">>))

ApkErrors_dropsNonEmptyMissing(v, apk_path) ==
    When(apk_path = NoText, Err("file_not_found", <<"APK file not found">>))

ApkErrors(v, apk_path) ==
    IF apk_path = NoText \/ ~path_exists(apk_path)
    THEN Err("file_not_found", <<"APK file not found">>)
    ELSE When(v = "gui" /\ ~validate_apk_file(apk_path).ok,
              Err("corrupted_apk", <<"APK: ">> \o validate_apk_file(apk_path).msg))

OutputErrors(output_path) ==
    When(output_path = NoText \/ ~path_exists(output_path),
         Err("file_not_found", <<"Output directory not found">>))

\* "Check disk space"
DiskErrors(v, m, apk_path) ==
    LET du == get_disk_usage(m)
        apkThere == apk_path # NoText /\ path_exists(apk_path)
        apk_size == IF apkThere THEN m.apk_size ELSE 0
        needed_gb == (apk_size * 3) \div GiB
        checked == /\ m.psutil
                   /\ du.free_gb > 0
                   /\ (v = "modular" => apkThere)
    IN When(checked /\ du.free_gb < needed_gb,
            Err("insufficient_memory",
                <<"Need ">> \o IntToStr(needed_gb) \o <<"GB, only ">>
                    \o IntToStr(du.free_gb) \o <<"GB free">>))

\* APKPatcher.validate_inputs (v = "modular"), ReVancedGUI.validate_inputs of
\* src/gui.py (v = "gui"): the ordered list of (error kind, message) pairs.
validate_inputs(v, m, cli_jar_path, patches_rvp_path, apk_path, output_path) ==
    JavaErrors(m)
       \o CliErrors(v, cli_jar_path)
       \o PatchesErrors(patches_rvp_path)
       \o ApkErrors(v, apk_path)
       \o OutputErrors(output_path)
       \o DiskErrors(v, m, apk_path)

-----------------------------------------------------------------------------
(* One validation pass over drawn inputs.                                  *)

vars == <<variant, valVars, runVars, cfgVars>>

ValInputs ==
    [m : Machines, cli : CliPaths, patches : PatchesPaths,
     apk : ApkPaths, out : OutPaths]

\* The window's geometry text as root.geometry() returns it: after
\* root.geometry("1000x600"), after the user moved and resized the window,
\* and with the window's left edge left of the screen.
WinDefault == <<"1", "0", "0", "0", "x", "6", "0", "0", "+", "0", "+", "0">>
WinMoved == <<"9", "0", "0", "x", "5", "0", "0", "+", "4", "0", "+", "8">>
WinLeftOf == <<"9", "0", "0", "x", "5", "0", "0", "+", "-", "8", "+", "8">>
WindowGeometries == {WinDefault, WinLeftOf}

\* What a session holds: the flags of ConfigManager, the path variables, the
\* window's geometry, the level load_config logged at ("none": no entry) and
\* whether load_config raised to its caller.
Defaults ==
    [save_logs_enabled |-> FALSE, save_config_enabled |-> TRUE,
     cli |-> NoText, patches |-> NoText, out |-> NoText,
     window |-> WinDefault, log |-> "none", raised |-> FALSE]

NoSave == "none"

\* The variables of a process that is not running
NoFlags == [save_logs_enabled |-> FALSE, save_config_enabled |-> TRUE]
NoPaths == [cli |-> NoText, patches |-> NoText, apk |-> NoText, out |-> NoText,
            outname |-> NoText]

\* No session runs and nothing is on disk.
RecentIdle ==
    recent = [lists |-> [t \in {"cli", "patches", "apk"} |-> <<>>],
              has_file |-> FALSE, file |-> <<>>, caught |-> 0,
              last |-> [op |-> "none", file_type |-> "apk", file_path |-> <<>>]]

PrefsIdle ==
    /\ cm = NoFlags
    /\ window = WinDefault
    /\ disk = [has_target |-> FALSE, target |-> <<>>,
               has_temp |-> FALSE, temp |-> <<>>]
    /\ cfg = [pc |-> "idle", doc |-> <<>>, written |-> 0, closing |-> FALSE,
              fresh |-> FALSE, log |-> "none", raised |-> FALSE,
              sessions |-> 0, edits |-> 0, faults |-> 0,
              exit |-> "none", logfile |-> FALSE]
    /\ lastSave = [status |-> NoSave, rec |-> Defaults]

\* SystemMonitor.__init__: monitoring = False, no thread
MonIdle ==
    mon = [monitoring |-> FALSE, pc |-> "none", psutil |-> FALSE,
           iterations |-> 0, stopped |-> FALSE, reads |-> 0, emitted |-> 0]

CfgIdle == PrefsIdle /\ RecentIdle /\ MonIdle

NoProbe == [text |-> <<>>, pc |-> "ready", major |-> 0]

ValIdle ==
    /\ vin = [m |-> CHOOSE m \in Machines : TRUE, cli |-> NoText,
              patches |-> NoText, apk |-> NoText, out |-> NoText]
    /\ vout = <<>>
    /\ vpc = "ready"
    /\ jver = NoProbe

-----------------------------------------------------------------------------
(* The process runner: patch_apk, the worker thread and the UI thread.     *)

MaxJobs == 1
MaxLines == 2
MaxPending == 6
MaxRejections == 1
BusyJobs == 2
BusyLines == 0
max_retries == 3
ExitCodes == {0, 1, 2}
BusyCodes == {0, 1}

Min(a, b) == IF a < b THEN a ELSE b

\* The model follows the runs in which at most MaxPending callbacks wait for
\* the UI thread: a worker's step that hands over more is taken once the UI
\* thread has caught up.
CanPost(posts) == Len(uiQueue) + Len(posts) <= MaxPending

\* os.path.join(directory, name)
os_path_join(d, f) ==
    IF f # <<>> /\ Head(f) = "/" THEN f
    ELSE IF d = <<>> \/ d[Len(d)] = "/" THEN d \o f
         ELSE d \o <<"/">> \o f

\* The position of the last "/" of p, 0 when it has none
LastSlash(p) ==
    IF \E i \in DOMAIN p : p[i] = "/"
    THEN CHOOSE i \in DOMAIN p : p[i] = "/" /\ \A k \in (i + 1)..Len(p) : p[k] # "/"
    ELSE 0

\* os.path.dirname, os.path.basename (posixpath.split)
os_path_dirname(p) ==
    LET head == SubSeq(p, 1, LastSlash(p))
    IN IF \A i \in DOMAIN head : head[i] = "/" THEN head
       ELSE RStrip(head, {"/"})

os_path_basename(p) == SubSeq(p, LastSlash(p) + 1, Len(p))

\* os.path.splitext: the text is cut at its last "." when that comes after
\* the last "/" and a character other than "." stands between the two
os_path_splitext(p) ==
    LET sepIndex == LastSlash(p)
        dotIndex == IF \E i \in DOMAIN p : p[i] = "."
                    THEN CHOOSE i \in DOMAIN p :
                            p[i] = "." /\ \A k \in (i + 1)..Len(p) : p[k] # "."
                    ELSE 0
    IN IF dotIndex > sepIndex
            /\ \E k \in (sepIndex + 1)..(dotIndex - 1) : p[k] # "."
       THEN [root |-> SubSeq(p, 1, dotIndex - 1),
             ext |-> SubSeq(p, dotIndex, Len(p))]
       ELSE [root |-> p, ext |-> <<>>]

update_output_filename_keepsDirectory(v, g) ==
    LET split == os_path_splitext(os_path_basename(g.apk))
    IN IF g.apk = <<>> THEN g
       ELSE [g EXCEPT !.outname = split.root \o <<"-patched">> \o split.ext]

\* update_output_filename, the trace on apk_path, on the path variables g
\* after apk_path was written: src/src sets the output directory and the
\* output filename, src/gui.py the output filename only.
update_output_filename(v, g) ==
    LET split == os_path_splitext(os_path_basename(g.apk))
        named == [g EXCEPT !.outname = split.root \o <<"-patched">> \o split.ext]
    IN IF g.apk = <<>> THEN g
       ELSE IF v = "modular" THEN [named EXCEPT !.out = os_path_dirname(g.apk)]
       ELSE named

build_command_swapsOutputAndInput(cli_jar_path, patches_rvp_path, apk_path, output_file) ==
    << <<"java">>, <<"-jar">>, cli_jar_path, <<"patch">>,
       <<"-p">>, patches_rvp_path,
       <<"-o">>, apk_path,
       output_file >>

\* APKPatcher.build_command, and the cmd list of ReVancedGUI.patch_apk
build_command(cli_jar_path, patches_rvp_path, apk_path, output_file) ==
    << <<"java">>, <<"-jar">>, cli_jar_path, <<"patch">>,
       <<"-p">>, patches_rvp_path,
       <<"-o">>, output_file,
       apk_path >>

\* ReVancedGUI.modify_command_for_retry (src/gui.py)
modify_command_for_retry(cmd) ==
    IF Len(cmd) > 1 /\ cmd[1] = <<"java">>
    THEN <<cmd[1], <<"-Xmx2G">>>> \o SubSeq(cmd, 2, Len(cmd))
    ELSE cmd

RetryAllowed_offByOne(count) == count <= max_retries

\* "if self.retry_count < self.max_retries" of ReVancedGUI.run_patching
RetryAllowed(count) == count < max_retries

\* The window's paths during a run: a complete request, and two requests the
\* validator rejects.
RunRequests ==
    { [cli |-> CliJar, patches |-> PatchesRvp, apk |-> AppApk, out |-> OutDir,
       outname |-> <<"app", "-patched", ".", "apk">>],
      [cli |-> CliJar, patches |-> PatchesRvp, apk |-> GoneApk, out |-> OutDir,
       outname |-> <<"gone", "-patched", ".", "apk">>],
      [cli |-> NoText, patches |-> NoText, apk |-> NoText, out |-> NoText,
       outname |-> NoText] }

NoPsutil(j) ==
    [java |-> j, psutil |-> FALSE, diskOk |-> FALSE,
     free |-> 0, total |-> TotalUnits, apk_size |-> 1]

RunMachines ==
    { NoPsutil(JavaReports(<<"1", "7", ".", "0", ".", "2">>)),
      NoPsutil(JavaMissing) }

NoExit == 0 - 1

NewJob(cmd, output_file) ==
    [pc |-> "spawn", cmd |-> cmd, output_file |-> output_file, lines |-> 0,
     rc |-> NoExit, nlaunch |-> 0, retries |-> 0, succ |-> 0, errs |-> <<>>,
     escaped |-> FALSE, exc |-> [kind |-> "none", text |-> <<>>],
     tool_found |-> TRUE, total |-> 0, launched_at |-> now + 1,
     completed_at |-> 0, elapsed |-> 0]

JobIds == DOMAIN jobs

RunIdle ==
    /\ scope = [jobs |-> 0, lines |-> 0, codes |-> {}, faults |-> FALSE]
    /\ gui = CHOOSE r \in RunRequests : r.cli = NoText
    /\ machine = NoPsutil(JavaMissing)
    /\ jobs = <<>>
    /\ retry_count = 0
    /\ uiQueue = <<>>
    /\ progress = FALSE
    /\ surfaced = <<>>
    /\ workerUiOps = {}
    /\ log = <<>>
    /\ now = 0
    /\ start_time = 0

RunStart(sc) ==
    /\ scope = sc
    /\ variant \in Variants
    /\ gui \in RunRequests
    /\ machine \in RunMachines
    /\ jobs = <<>>
    /\ retry_count = 0
    /\ uiQueue = <<>>
    /\ progress = FALSE
    /\ surfaced = <<>>
    /\ workerUiOps = {}
    /\ log = <<>>
    /\ now = 0
    /\ start_time = 0
    /\ ValIdle
    /\ CfgIdle

\* One job at a time, with callbacks that may raise
RunInit ==
    RunStart([jobs |-> MaxJobs, lines |-> MaxLines, codes |-> ExitCodes,
              faults |-> TRUE])

\* A second patch_apk while a job runs, with callbacks that return
BusyInit ==
    RunStart([jobs |-> BusyJobs, lines |-> BusyLines, codes |-> BusyCodes,
              faults |-> FALSE])

\* "-" * 60 and "=" * 60
SepDash == <<"------">>
SepEq == <<"======">>

\* The remedy table of handle_patching_error: src/src/core/patcher.py lines
\* 58-65 and src/gui.py lines 879-886
error_solutions(v) ==
    IF v = "modular"
    THEN [java_not_found |-> "Install Java 8+ and ensure it's in your PATH",
          file_not_found |-> "Check that all required files exist and are accessible",
          corrupted_apk |-> "Use a different APK file or re-download the original",
          patch_mismatch |-> "Ensure APK version matches the patches version",
          insufficient_memory |-> "Free up disk space or use a smaller APK",
          unknown |-> "Check the log for detailed error information"]
    ELSE [java_not_found |-> "Install Java JRE 8+ and add to PATH",
          insufficient_memory |-> "Close other applications or increase Java heap size with -Xmx option",
          corrupted_apk |-> "Try a different APK file or redownload it",
          patch_mismatch |-> "Ensure patches are compatible with APK version",
          file_not_found |-> "Check that all file paths are correct and files exist",
          permission_denied |-> "Check file permissions and try running as administrator if needed"]

\* error_solutions.get(error_type, <fallback>)
Solution(v, error_type) ==
    IF error_type \in DOMAIN error_solutions(v)
    THEN error_solutions(v)[error_type]
    ELSE IF v = "modular"
         THEN "Check the log output for detailed error information"
         ELSE "Check the log for details and try again"

\* The error_msg of handle_patching_error
handle_patching_error(v, error_type, details) ==
    <<"Error: ">> \o details \o <<"\nSolution: ", Solution(v, error_type)>>

\* An entry of the log: ev is "line" for a line of the child's output, "log"
\* for a message of the program's own
LogEntry(j, text) == [job |-> j, ev |-> "log", text |-> text]
LineEntry(j, text) == [job |-> j, ev |-> "line", text |-> text]
Dialog(j, ev, text) == [job |-> j, ev |-> ev, text |-> text]

ValidationErrors ==
    validate_inputs(variant, machine, gui.cli, gui.patches, gui.apk, gui.out)

\* ' '.join(cmd)
RECURSIVE Join(_)
Join(words) ==
    IF words = <<>> THEN <<>>
    ELSE IF Len(words) = 1 THEN Head(words)
    ELSE Head(words) \o <<" ">> \o Join(Tail(words))

\* What one error leaves in the log and on the screen.  src/src: patch_apk
\* and error_callback call handle_patching_error, which logs error_msg, and
\* then messagebox.showerror.  src/gui.py: handle_patching_error logs, shows
\* the dialog, and logs the error report's name (generate_error_report and
\* handle_patching_error each log it).
ErrorTrace(v, j, error_type, details) ==
    LET error_msg == handle_patching_error(v, error_type, details)
        report == <<"Error report saved: ", "report_file">>
    IN <<LogEntry(j, error_msg), Dialog(j, "showerror", error_msg)>>
       \o (IF v = "gui" THEN <<LogEntry(j, report), LogEntry(j, report)>>
           ELSE <<>>)

RECURSIVE RejectTrace(_, _)
RejectTrace(v, errors) ==
    IF errors = <<>> THEN <<>>
    ELSE ErrorTrace(v, 0, Head(errors).kind, Head(errors).msg)
            \o RejectTrace(v, Tail(errors))

\* The number of patch_apk calls the validator has rejected so far
Rejections ==
    Len(SelectSeq(log, LAMBDA e : e.job = 0 /\ e.ev = "showerror"))

\* patch_apk when validate_inputs returns errors: each is handed to
\* handle_patching_error and shown, and the handler returns.
PatchApkRejected ==
    /\ ValidationErrors # <<>>
    /\ Rejections < MaxRejections * Len(ValidationErrors)
    /\ surfaced' = ValidationErrors
    /\ log' = log \o RejectTrace(variant, ValidationErrors)
    /\ UNCHANGED <<variant, scope, gui, machine, jobs, retry_count, uiQueue, progress,
                   workerUiOps, now, start_time, valVars, cfgVars>>

\* The lines patch_apk (src/gui.py) and start_patching (src/src) log before
\* the worker is started
StartLines(j, apk_path, output_file, cmd) ==
    << LogEntry(j, SepEq),
       LogEntry(j, <<"Starting ReVanced Patching Process">>),
       LogEntry(j, SepEq),
       LogEntry(j, <<"Input APK: ">> \o apk_path),
       LogEntry(j, <<"Output file: ">> \o output_file),
       LogEntry(j, <<"Java version: ", "java_version">>),
       LogEntry(j, <<"Using all available patches">>),
       LogEntry(j, <<"Command: ">> \o Join(cmd)),
       LogEntry(j, SepDash) >>

Accepts_whenIdle(validation_errors, started) ==
    /\ validation_errors = <<>>
    /\ \A j \in DOMAIN started : started[j].pc = "done"

\* The one test patch_apk makes before it starts a job: "if
\* validation_errors: ... return".  The jobs started before are not looked
\* at.
Accepts(validation_errors, started) == validation_errors = <<>>

\* json.dump of a str (no character of these texts needs an escape) and of a bool
JsonString(s) == <<"\"">> \o s \o <<"\"">>
JsonBool(b) == IF b THEN <<"true">> ELSE <<"false">>
JsonMember(key, valueText) == JsonString(<<key>>) \o <<": ">> \o valueText

ConfigMembers_swapsToolAndPatches(v, s) ==
    (IF v = "modular"
     THEN << JsonMember("save_logs_enabled", JsonBool(s.save_logs_enabled)),
             JsonMember("save_config_enabled", JsonBool(s.save_config_enabled)) >>
     ELSE <<>>)
    \o << JsonMember("last_cli_path", JsonString(s.patches)),
          JsonMember("last_patches_path", JsonString(s.cli)),
          JsonMember("last_output_dir", JsonString(s.out)),
          JsonMember("window_geometry", JsonString(s.window)),
          JsonMember("version", JsonString(<<"1.3.1">>)) >>

\* The config dict of save_config, one chunk per member
ConfigMembers(v, s) ==
    (IF v = "modular"
     THEN << JsonMember("save_logs_enabled", JsonBool(s.save_logs_enabled)),
             JsonMember("save_config_enabled", JsonBool(s.save_config_enabled)) >>
     ELSE <<>>)
    \o << JsonMember("last_cli_path", JsonString(s.cli)),
          JsonMember("last_patches_path", JsonString(s.patches)),
          JsonMember("last_output_dir", JsonString(s.out)),
          JsonMember("window_geometry", JsonString(s.window)),
          JsonMember("version", JsonString(<<"1.3.1">>)) >>

\* json.dump(config, f, indent=2): the chunks written to f, in order
json_dump(members) == << <<"{">> >> \o members \o << <<"}">> >>

MaxFaults == 1

\* What patch_apk saves: the flags, the paths and the geometry of the window
PatchSession ==
    [save_logs_enabled |-> cm.save_logs_enabled,
     save_config_enabled |-> cm.save_config_enabled,
     cli |-> gui.cli, patches |-> gui.patches, out |-> gui.out,
     window |-> window, log |-> "none", raised |-> FALSE]

\* save_config called by patch_apk, from call to return in one step.
\* ConfigManager.save_config returns at once when the Config setting is off;
\* a save that fails leaves config.json as it was.
SaveInPatchApk(saved) ==
    IF variant = "modular" /\ ~cm.save_config_enabled
    THEN UNCHANGED <<disk, lastSave, cfg>>
    ELSE IF saved
    THEN /\ disk' = [has_target |-> TRUE,
                     target |-> json_dump(ConfigMembers(variant, PatchSession)),
                     has_temp |-> FALSE, temp |-> <<>>]
         /\ lastSave' = [status |-> "returned", rec |-> PatchSession]
         /\ UNCHANGED cfg
    ELSE /\ lastSave' = [status |-> "failed", rec |-> PatchSession]
         /\ cfg' = [cfg EXCEPT !.faults = @ + 1, !.raised = (variant = "gui")]
         /\ UNCHANGED disk

\* How the save_config call of patch_apk can end
SaveResults ==
    IF scope.faults /\ cfg.faults < MaxFaults THEN {TRUE, FALSE} ELSE {TRUE}

\* patch_apk when validate_inputs returns the empty list: the progress bar is
\* started, the command built and logged, start_time set, the preferences
\* saved and the worker thread started.  When save_config hits an OSError,
\* ConfigManager.save_config logs it and returns, and the job is started;
\* in src/gui.py the start was logged, the progress bar started and
\* start_time set when save_config (line 1235) raises AttributeError out of
\* patch_apk: no thread is started.
PatchApkStarted ==
    /\ Accepts(ValidationErrors, jobs)
    /\ Len(jobs) < scope.jobs
    /\ \E saved \in SaveResults :
          /\ LET output_file == os_path_join(gui.out, gui.outname)
                 cmd == build_command(gui.cli, gui.patches, gui.apk,
                                      output_file)
             IN /\ jobs' = IF variant = "gui" /\ ~saved THEN jobs
                           ELSE Append(jobs, NewJob(cmd, output_file))
                /\ log' = log \o StartLines(Len(jobs) + 1, gui.apk,
                                            output_file, cmd)
          /\ SaveInPatchApk(saved)
    /\ progress' = TRUE
    /\ surfaced' = <<>>
    /\ now' = now + 1
    /\ start_time' = now + 1
    /\ UNCHANGED <<variant, scope, gui, machine, retry_count, uiQueue, workerUiOps,
                   valVars, cm, window, recent, mon>>

-----------------------------------------------------------------------------
(* APKPatcher.run_patching on the worker thread.  The body of the try      *)
(* block, of each except clause and of the finally clause is a list of     *)
(* calls; a call may raise, which ends its list.                           *)

LogCall(text) == [fn |-> "log_callback", kind |-> "", msg |-> text]
SuccessCall == [fn |-> "success_callback", kind |-> "", msg |-> <<>>]
ErrorCall(kind, msg) == [fn |-> "error_callback", kind |-> kind, msg |-> msg]

FailedMessage(rc) == <<"Patching failed with return code ">> \o IntToStr(rc)

CompletedMessage(elapsed) ==
    <<"Patching completed successfully in ">> \o IntToStr(elapsed) \o <<"s!">>

\* lines 101-111: the calls made after process.wait()
ClassifyCalls(rc, elapsed, output_file) ==
    IF rc = 0
    THEN <<LogCall(SepDash), LogCall(CompletedMessage(elapsed)),
           LogCall(<<"Patched APK saved as: ">> \o output_file), SuccessCall>>
    ELSE <<LogCall(SepDash), LogCall(FailedMessage(rc)),
           ErrorCall("patch_mismatch", FailedMessage(rc))>>

\* lines 113-117
FileNotFoundCalls ==
    <<LogCall(SepDash), LogCall(<<"Java not found.">>),
      ErrorCall("java_not_found", <<"Java not found.">>)>>

\* str(e) of the exceptions of the model: Popen refused by the system, and
\* Tk refusing a widget call
PermissionText == <<"[Errno 13] Permission denied: 'java'">>
SinkText == <<"main thread is not in main loop">>

\* lines 118-122
ExceptionCalls(text) ==
    <<LogCall(SepDash), LogCall(<<"Exception occurred: ">> \o text),
      ErrorCall("unknown", <<"Exception occurred: ">> \o text)>>

\* The exception that left the try block, read off the except clause that ran
RaisedIn(handler) ==
    CASE handler = <<>> -> [kind |-> "none", text |-> <<>>]
      [] handler = FileNotFoundCalls -> [kind |-> "FileNotFoundError", text |-> <<>>]
      [] OTHER -> [kind |-> "Exception",
                   text |-> Tail(handler[Len(handler)].msg)]

\* lines 123-124
FinallyCalls == <<LogCall(SepEq)>>

\* What log_message receives from a list of calls made on behalf of job j:
\* the text of each log_callback, and the error_msg that
\* handle_patching_error logs for each error_callback.
RECURSIVE LogOf(_, _)
LogOf(calls, j) ==
    IF calls = <<>> THEN <<>>
    ELSE (CASE Head(calls).fn = "log_callback" ->
                  <<IF Head(calls).kind = "line"
                    THEN LineEntry(j, Head(calls).msg)
                    ELSE LogEntry(j, Head(calls).msg)>>
            [] Head(calls).fn = "error_callback" ->
                  <<LogEntry(j, handle_patching_error("modular", Head(calls).kind,
                                                      Head(calls).msg))>>
            [] OTHER -> <<>>) \o LogOf(Tail(calls), j)

\* Of a list of calls in which call k raises (k = Len + 1: none does): the
\* calls made, and the calls that returned.
Invoked(calls, k) == SubSeq(calls, 1, Min(k, Len(calls)))
Returned(calls, k) == SubSeq(calls, 1, k - 1)
Raises(calls, k) == k <= Len(calls)
FaultPoints(calls) ==
    IF scope.faults THEN 1..(Len(calls) + 1) ELSE {Len(calls) + 1}

RECURSIVE CountFn(_, _)
CountFn(calls, fn) ==
    IF calls = <<>> THEN 0
    ELSE (IF Head(calls).fn = fn THEN 1 ELSE 0) + CountFn(Tail(calls), fn)

RECURSIVE ErrorsOf(_)
ErrorsOf(calls) ==
    IF calls = <<>> THEN <<>>
    ELSE (IF Head(calls).fn = "error_callback"
          THEN <<[kind |-> Head(calls).kind, msg |-> Head(calls).msg]>>
          ELSE <<>>) \o ErrorsOf(Tail(calls))

\* What the callbacks of ReVancedGUI.patch_apk (src/src/revanced_gui.py) hand
\* to root.after when they return.
RECURSIVE PostsOf(_, _)
PostsOf(calls, j) ==
    IF calls = <<>> THEN <<>>
    ELSE (CASE Head(calls).fn = "success_callback" ->
                  <<[job |-> j, ev |-> "stop_success", kind |-> "", msg |-> <<>>],
                    [job |-> j, ev |-> "showinfo", kind |-> "", msg |-> <<>>]>>
            [] Head(calls).fn = "error_callback" ->
                  <<[job |-> j, ev |-> "stop_failed", kind |-> "", msg |-> <<>>],
                    [job |-> j, ev |-> "showerror", kind |-> Head(calls).kind,
                     msg |-> handle_patching_error("modular", Head(calls).kind,
                                                   Head(calls).msg)]>>
            [] OTHER -> <<>>) \o PostsOf(Tail(calls), j)

\* The UI functions a list of calls runs on the calling thread: log_callback
\* is ReVancedGUI.log_message, and error_callback calls
\* handle_patching_error, which calls log_callback.
DirectUiOps(calls) ==
    IF \E i \in DOMAIN calls : calls[i].fn \in {"log_callback", "error_callback"}
    THEN {"log_message"}
    ELSE {}

\* What a callback that raises has handed to root.after before: nothing, or
\* (early = FALSE, the second root.after raising) its first callback.
PartPosts(calls, k, j, early) ==
    IF Raises(calls, k) /\ ~early /\ calls[k].fn # "log_callback"
    THEN <<Head(PostsOf(<<calls[k]>>, j))>>
    ELSE <<>>

\* The rest of run_patching from the point where the try block is left:
\* tried are the calls of the try block, handler those of the except clause
\* that runs (<<>> when nothing was raised), k1, k2 and k3 the calls of the
\* try block, of the handler and of the finally clause that raise.
ModularFinish(j, rc, tried, k1, handler, k2, k3) ==
    \E early1 \in BOOLEAN, early2 \in BOOLEAN :
    LET made == Invoked(tried, k1) \o Invoked(handler, k2)
                    \o Invoked(FinallyCalls, k3)
        posts == PostsOf(Returned(tried, k1), j)
                    \o PartPosts(tried, k1, j, early1)
                    \o PostsOf(Returned(handler, k2), j)
                    \o PartPosts(handler, k2, j, early2)
    IN /\ CanPost(posts)
       /\ jobs' = [jobs EXCEPT ![j].pc = "done",
                               ![j].rc = rc,
                               ![j].lines = 0,
                               ![j].succ = @ + CountFn(made, "success_callback"),
                               ![j].errs = @ \o ErrorsOf(made),
                               ![j].escaped = Raises(handler, k2)
                                                \/ Raises(FinallyCalls, k3),
                               ![j].exc = RaisedIn(handler),
                               ![j].completed_at =
                                    IF rc = NoExit THEN @ ELSE now + 1,
                               ![j].elapsed =
                                    IF rc = 0 THEN now + 1 - start_time ELSE @]
       /\ uiQueue' = uiQueue \o posts
       /\ workerUiOps' = workerUiOps \cup DirectUiOps(made)
       /\ log' = log \o LogOf(made, j)
       /\ now' = IF rc = NoExit THEN now ELSE now + 1

\* The exit codes the child of job j can end with.  When the file named
\* after -jar is not there the java launcher prints the one line
\* "Error: Unable to access jarfile <path>" and exits with code 1.
ChildExitCodes(j) == IF jobs[j].tool_found THEN scope.codes ELSE {1}

\* Line i of what a patching child prints
ChildLine(i) ==
    IF i % 2 = 1 THEN <<"INFO: patch ">> \o IntToStr(i)
    ELSE <<" ", " ", "at step ">> \o IntToStr(i) \o <<" ">>

\* The line of its child that the worker of job j reads next
NextLine(j) ==
    IF jobs[j].tool_found THEN ChildLine(jobs[j].total - jobs[j].lines + 1)
    ELSE <<"Error: Unable to access jarfile ">> \o jobs[j].cmd[3]

\* subprocess.Popen starts the child: the command names java, found on the
\* PATH; the file cmd[3] was checked by validate_inputs and is not checked
\* again, so it may be gone by now.
Spawn(j) ==
    /\ jobs[j].pc = "spawn"
    /\ \E found \in BOOLEAN :
       \E n \in IF found THEN 0..scope.lines ELSE {1} :
          jobs' = [jobs EXCEPT ![j].pc = "stream", ![j].lines = n,
                               ![j].total = n,
                               ![j].rc = NoExit, ![j].nlaunch = @ + 1,
                               ![j].tool_found = found]
    /\ UNCHANGED <<variant, scope, gui, machine, retry_count, uiQueue, progress,
                   surfaced, workerUiOps, log, now, start_time, valVars,
                   cfgVars>>

\* subprocess.Popen raises: FileNotFoundError, or another exception
ModularSpawnFails(j) ==
    /\ variant = "modular"
    /\ jobs[j].pc = "spawn"
    /\ \E handler \in {FileNotFoundCalls, ExceptionCalls(PermissionText)} :
       \E k2 \in FaultPoints(handler), k3 \in FaultPoints(FinallyCalls) :
          ModularFinish(j, NoExit, <<>>, 1, handler, k2, k3)
    /\ UNCHANGED <<variant, scope, gui, machine, retry_count, progress, surfaced,
                   start_time, valVars, cfgVars>>

\* "for line in process.stdout: self.log_callback(line.strip())"
ModularStreamLine(j) ==
    /\ variant = "modular"
    /\ jobs[j].pc = "stream"
    /\ jobs[j].lines > 0
    /\ LET call == [LogCall(Strip(NextLine(j), Whitespace)) EXCEPT !.kind = "line"]
       IN \/ /\ jobs' = [jobs EXCEPT ![j].lines = @ - 1]
             /\ workerUiOps' = workerUiOps \cup DirectUiOps(<<call>>)
             /\ log' = log \o LogOf(<<call>>, j)
             /\ UNCHANGED <<uiQueue, now>>
          \/ /\ scope.faults
             /\ \E k2 \in FaultPoints(ExceptionCalls(SinkText)),
                   k3 \in FaultPoints(FinallyCalls) :
                   ModularFinish(j, NoExit, <<call>>, 1,
                                 ExceptionCalls(SinkText), k2, k3)
    /\ UNCHANGED <<variant, scope, gui, machine, retry_count, progress, surfaced,
                   start_time, valVars, cfgVars>>

\* process.wait() returns and the exit code is classified
ModularExit(j) ==
    /\ variant = "modular"
    /\ jobs[j].pc = "stream"
    /\ jobs[j].lines = 0
    /\ \E rc \in ChildExitCodes(j) :
       LET tried == ClassifyCalls(rc, now + 1 - start_time, jobs[j].output_file)
       IN \E k1 \in FaultPoints(tried) :
          LET handler == IF Raises(tried, k1)
                         THEN ExceptionCalls(SinkText) ELSE <<>>
          IN \E k2 \in FaultPoints(handler), k3 \in FaultPoints(FinallyCalls) :
                ModularFinish(j, rc, tried, k1, handler, k2, k3)
    /\ UNCHANGED <<variant, scope, gui, machine, retry_count, progress, surfaced,
                   start_time, valVars, cfgVars>>

-----------------------------------------------------------------------------
(* ReVancedGUI.run_patching of src/gui.py on the worker thread: every UI   *)
(* call is handed to root.after.                                           *)

Post(j, ev) == [job |-> j, ev |-> ev, kind |-> "", msg |-> <<>>]
PostLog(j, text) == [job |-> j, ev |-> "log_message", kind |-> "", msg |-> text]
PostError(j, kind, msg) == [job |-> j, ev |-> "handle_patching_error", kind |-> kind, msg |-> msg]

\* lines 1280-1291, and the finally clause
GuiSpawnFails(j) ==
    /\ variant = "gui"
    /\ jobs[j].pc = "spawn"
    /\ \E e \in { [kind |-> "java_not_found", msg |-> <<"Java not found.">>,
                   exc |-> [kind |-> "FileNotFoundError", text |-> <<>>]],
                  [kind |-> "unknown",
                   msg |-> <<"Exception occurred: ">> \o PermissionText,
                   exc |-> [kind |-> "Exception", text |-> PermissionText]] } :
          /\ jobs' = [jobs EXCEPT ![j].pc = "done", ![j].exc = e.exc]
          /\ LET posts == << PostLog(j, SepDash), PostLog(j, e.msg),
                              Post(j, "stop_failed"), PostError(j, e.kind, e.msg),
                              PostLog(j, SepEq) >>
             IN CanPost(posts) /\ uiQueue' = uiQueue \o posts
    /\ UNCHANGED <<variant, scope, gui, machine, retry_count, progress, surfaced,
                   workerUiOps, log, now, start_time, valVars, cfgVars>>

\* lines 1253-1254
GuiStreamLine(j) ==
    /\ variant = "gui"
    /\ jobs[j].pc = "stream"
    /\ jobs[j].lines > 0
    /\ jobs' = [jobs EXCEPT ![j].lines = @ - 1]
    /\ LET post == [PostLog(j, Strip(NextLine(j), Whitespace))
                        EXCEPT !.kind = "line"]
       IN CanPost(<<post>>) /\ uiQueue' = Append(uiQueue, post)
    /\ UNCHANGED <<variant, scope, gui, machine, retry_count, progress, surfaced,
                   workerUiOps, log, now, start_time, valVars, cfgVars>>

\* lines 1256-1264: exit code 0
GuiExitSuccess(j) ==
    /\ variant = "gui"
    /\ jobs[j].pc = "stream"
    /\ jobs[j].lines = 0
    /\ 0 \in ChildExitCodes(j)
    /\ jobs' = [jobs EXCEPT ![j].pc = "done", ![j].rc = 0,
                            ![j].completed_at = now + 1,
                            ![j].elapsed = now + 1 - start_time]
    /\ now' = now + 1
    /\ LET posts == << PostLog(j, SepDash),
                       PostLog(j, CompletedMessage(now + 1 - start_time)),
                       PostLog(j, <<"Patched APK saved as: ">> \o jobs[j].output_file),
                       Post(j, "stop_success"),
                       Post(j, "showinfo"), PostLog(j, SepEq) >>
       IN CanPost(posts) /\ uiQueue' = uiQueue \o posts
    /\ UNCHANGED <<variant, scope, gui, machine, retry_count, progress, surfaced,
                   workerUiOps, log, start_time, valVars, cfgVars>>

\* lines 1265-1275: non-zero exit code, a retry is scheduled
GuiExitRetry(j) ==
    /\ variant = "gui"
    /\ jobs[j].pc = "stream"
    /\ jobs[j].lines = 0
    /\ RetryAllowed(retry_count)
    /\ \E rc \in ChildExitCodes(j) \ {0} :
          /\ jobs' = [jobs EXCEPT ![j].pc = "retry_wait", ![j].rc = rc,
                                  ![j].retries = @ + 1,
                                  ![j].completed_at = now + 1]
          /\ LET posts == << PostLog(j, SepDash), PostLog(j, FailedMessage(rc)),
                             Post(j, "stop_failed"),
                             PostLog(j, <<"Auto-retry ", "retry_count", "/",
                                          "max_retries", " in 3 seconds...">>),
                             PostLog(j, SepEq) >>
             IN CanPost(posts) /\ uiQueue' = uiQueue \o posts
    /\ retry_count' = retry_count + 1
    /\ now' = now + 1
    /\ UNCHANGED <<variant, scope, gui, machine, progress, surfaced, workerUiOps, log,
                   start_time, valVars, cfgVars>>

\* lines 1265-1270, 1276-1278: non-zero exit code, the retries are used up
GuiExitFailed(j) ==
    /\ variant = "gui"
    /\ jobs[j].pc = "stream"
    /\ jobs[j].lines = 0
    /\ ~RetryAllowed(retry_count)
    /\ \E rc \in ChildExitCodes(j) \ {0} :
          /\ jobs' = [jobs EXCEPT ![j].pc = "done", ![j].rc = rc,
                                  ![j].completed_at = now + 1]
          /\ LET posts == << PostLog(j, SepDash), PostLog(j, FailedMessage(rc)),
                             Post(j, "stop_failed"),
                             PostError(j, "patch_mismatch", FailedMessage(rc)),
                             PostLog(j, SepEq) >>
             IN CanPost(posts) /\ uiQueue' = uiQueue \o posts
    /\ retry_count' = 0
    /\ now' = now + 1
    /\ UNCHANGED <<variant, scope, gui, machine, progress, surfaced, workerUiOps, log,
                   start_time, valVars, cfgVars>>

\* ReVancedGUI.auto_retry_on_failure, run by root.after(3000, ...) on the UI
\* thread: Tk runs it after the callbacks the worker handed to
\* root.after(0, ...) before.  The log from here on is that of the new child.
AutoRetry(j) ==
    /\ variant = "gui"
    /\ jobs[j].pc = "retry_wait"
    /\ \A i \in DOMAIN uiQueue : uiQueue[i].job # j
    /\ jobs' = [jobs EXCEPT ![j].pc = "spawn",
                            ![j].cmd = modify_command_for_retry(@)]
    /\ progress' = TRUE
    /\ log' = Append(SelectSeq(log, LAMBDA e : e.job # j),
                     LogEntry(j, <<"Retrying... (attempt ", "retry_count",
                                   "/", "max_retries", ")">>))
    /\ now' = now + 1
    /\ UNCHANGED <<variant, scope, gui, machine, retry_count, uiQueue, surfaced,
                   workerUiOps, start_time, valVars, cfgVars>>

\* The UI thread runs the oldest callback handed to root.after(0, ...).
UiRun ==
    /\ uiQueue # <<>>
    /\ LET e == Head(uiQueue)
       IN /\ progress' = IF e.ev \in {"stop_success", "stop_failed"}
                         THEN FALSE ELSE progress
          /\ jobs' = CASE e.ev = "handle_patching_error" ->
                            [jobs EXCEPT ![e.job].errs =
                                Append(@, [kind |-> e.kind, msg |-> e.msg])]
                       [] e.ev = "showinfo" /\ variant = "gui" ->
                            [jobs EXCEPT ![e.job].succ = @ + 1]
                       [] OTHER -> jobs
          /\ log' = log \o
                CASE e.ev = "log_message" ->
                        <<IF e.kind = "line" THEN LineEntry(e.job, e.msg)
                          ELSE LogEntry(e.job, e.msg)>>
                  [] e.ev = "handle_patching_error" ->
                        ErrorTrace("gui", e.job, e.kind, e.msg)
                  [] e.ev = "showerror" -> <<Dialog(e.job, "showerror", e.msg)>>
                  [] e.ev = "showinfo" ->
                        <<Dialog(e.job, "showinfo",
                                 <<"Patching completed successfully!">>)>>
                  [] OTHER -> <<>>
    /\ uiQueue' = Tail(uiQueue)
    /\ UNCHANGED <<variant, scope, gui, machine, retry_count, surfaced, workerUiOps,
                   now, start_time, valVars, cfgVars>>

RunNext ==
    \/ PatchApkRejected
    \/ PatchApkStarted
    \/ UiRun
    \/ \E j \in JobIds : Spawn(j)
    \/ \E j \in JobIds : ModularSpawnFails(j)
    \/ \E j \in JobIds : ModularStreamLine(j)
    \/ \E j \in JobIds : ModularExit(j)
    \/ \E j \in JobIds : GuiSpawnFails(j)
    \/ \E j \in JobIds : GuiStreamLine(j)
    \/ \E j \in JobIds : GuiExitSuccess(j)
    \/ \E j \in JobIds : GuiExitRetry(j)
    \/ \E j \in JobIds : GuiExitFailed(j)
    \/ \E j \in JobIds : AutoRetry(j)

SpecRun == RunInit /\ [][RunNext]_vars

SpecBusy == BusyInit /\ [][RunNext]_vars

ValInit ==
    /\ variant \in Variants
    /\ vin \in ValInputs
    /\ vout = <<>>
    /\ vpc = "ready"
    /\ jver = NoProbe
    /\ RunIdle
    /\ CfgIdle

Validate ==
    /\ vpc = "ready"
    /\ vout' = validate_inputs(variant, vin.m, vin.cli, vin.patches, vin.apk, vin.out)
    /\ vpc' = "done"
    /\ UNCHANGED <<variant, vin, jver, runVars, cfgVars>>

ValNext == Validate

SpecVal == ValInit /\ [][ValNext]_vars

-----------------------------------------------------------------------------
(* parse_java_version on drawn texts: every text of up to MaxText          *)
(* characters of VersionChars, and the version texts of JavaVersionTexts.  *)

MaxText == 4
VersionChars == {"1", "7", "8", ".", "_", "-", "a", " ", "\""}

RECURSIVE TextsOfLen(_)
TextsOfLen(n) ==
    IF n = 0 THEN {<<>>}
    ELSE {Append(t, c) : t \in TextsOfLen(n - 1), c \in VersionChars}

VersionTexts ==
    JavaVersionTexts \cup UNION {TextsOfLen(n) : n \in 0..MaxText}

JavaInit ==
    /\ variant \in Variants
    /\ jver \in [text : VersionTexts, pc : {"ready"}, major : {0}]
    /\ vin = [m |-> CHOOSE m \in Machines : TRUE, cli |-> NoText,
              patches |-> NoText, apk |-> NoText, out |-> NoText]
    /\ vout = <<>>
    /\ vpc = "ready"
    /\ RunIdle
    /\ CfgIdle

\* A call of parse_java_version returns
ParseVersion ==
    /\ jver.pc = "ready"
    /\ jver' = [jver EXCEPT !.pc = "done",
                            !.major = parse_java_version(jver.text)]
    /\ UNCHANGED <<variant, vin, vout, vpc, runVars, cfgVars>>

JavaNext == ParseVersion

SpecJava == JavaInit /\ [][JavaNext]_vars

-----------------------------------------------------------------------------
(* The preferences file: ConfigManager (src/src/core/config.py) and         *)
(* load_config / save_config of src/gui.py.  A file's content is the       *)
(* sequence of chunks written to it; a chunk is a text.                    *)

MaxSessions == 2
MaxEdits == 2

\* A decoded JSON value
BoolValue(b) == [ty |-> "bool", b |-> b, s |-> <<>>]
StrValue(s) == [ty |-> "str", b |-> FALSE, s |-> s]
NumValue(s) == [ty |-> "num", b |-> FALSE, s |-> s]
NoValue == [ty |-> "none", b |-> FALSE, s |-> <<>>]

\* json decoding of one value text; ty = "none" is JSONDecodeError
JsonValue(t) ==
    CASE t = <<"true">> -> BoolValue(TRUE)
      [] t = <<"false">> -> BoolValue(FALSE)
      [] Len(t) >= 2 /\ t[1] = "\"" /\ t[Len(t)] = "\""
            /\ (\A i \in 2..(Len(t) - 1) : t[i] # "\"") ->
            StrValue(SubSeq(t, 2, Len(t) - 1))
      [] t # <<>> /\ (\A i \in DOMAIN t : t[i] \in DigitChars) -> NumValue(t)
      [] OTHER -> NoValue

\* json decoding of one "key": value chunk
JsonPair(m) ==
    IF Len(m) >= 5 /\ m[1] = "\"" /\ m[3] = "\"" /\ m[4] = ": "
    THEN [key |-> m[2], val |-> JsonValue(SubSeq(m, 5, Len(m)))]
    ELSE [key |-> "", val |-> NoValue]

\* json.load: shape is "dict", "list", or "error" (JSONDecodeError)
json_load(content) ==
    LET n == Len(content)
        pairs == [i \in 1..(n - 2) |-> JsonPair(content[i + 1])]
    IN CASE n >= 2 /\ content[1] = <<"{">> /\ content[n] = <<"}">>
               /\ (\A i \in DOMAIN pairs : pairs[i].val.ty # "none") ->
               [shape |-> "dict", pairs |-> pairs]
         [] n = 2 /\ content[1] = <<"[">> /\ content[n] = <<"]">> ->
               [shape |-> "list", pairs |-> <<>>]
         [] OTHER -> [shape |-> "error", pairs |-> <<>>]

\* dict.get(key, default): of a repeated key the last member counts
ConfigGet(pairs, key, default) ==
    LET at == {i \in DOMAIN pairs : pairs[i].key = key}
    IN IF at = {} THEN default
       ELSE pairs[CHOOSE i \in at : \A k \in at : k <= i].val

\* str(value)
PyStr(v) ==
    CASE v.ty = "bool" -> IF v.b THEN <<"T", "r", "u", "e">> ELSE <<"F", "a", "l", "s", "e">>
      [] OTHER -> v.s

\* the truth value of a decoded value
Truthy(v) ==
    CASE v.ty = "bool" -> v.b
      [] v.ty = "num" -> \E i \in DOMAIN v.s : v.s[i] # "0"
      [] OTHER -> v.s # <<>>

\* re.match(r'\d+x\d+\+\d+\+\d+', g): the position after the match, 0 when
\* the start of g does not match
RECURSIVE SkipDigits(_, _)
SkipDigits(g, i) ==
    IF i <= Len(g) /\ g[i] \in DigitChars THEN SkipDigits(g, i + 1) ELSE i

Digits1(g, i) ==
    IF i # 0 /\ SkipDigits(g, i) > i THEN SkipDigits(g, i) ELSE 0

Literal(g, i, c) ==
    IF i # 0 /\ i <= Len(g) /\ g[i] = c THEN i + 1 ELSE 0

GeometryMatch(g) ==
    Digits1(g, Literal(g, Digits1(g, Literal(g, Digits1(g,
        Literal(g, Digits1(g, 1), "x")), "+")), "+"))

\* root.geometry(g) of a text whose start matches: Tk takes the text when
\* the match is all of it and raises TclError otherwise
TkAcceptsGeometry(g) == GeometryMatch(g) = Len(g) + 1

LoadHandler_valueErrorEscapes(exc) ==
    CASE exc \in {"JSONDecodeError", "OSError"} -> "warning"
      [] exc = "ValueError" -> "raise"
      [] OTHER -> "error"

\* The except clause of load_config that takes an exception of the try
\* block: (json.JSONDecodeError, ValueError, OSError) logs a warning,
\* Exception logs an error.
LoadHandler(exc) ==
    CASE exc \in {"JSONDecodeError", "ValueError", "OSError"} -> "warning"
      [] OTHER -> "error"

\* ConfigManager.load_config (v = "modular") and ReVancedGUI.load_config of
\* src/gui.py (v = "gui") on a session s0 and the file at config.json.
load_config(v, s0, has_target, content, apk_path) ==
    LET config == json_load(content)
        Get(key, default) == ConfigGet(config.pairs, key, default)
        geometry == Get("window_geometry", StrValue(<<>>))
        flags ==
            IF v = "modular"
            THEN [s0 EXCEPT
                    !.save_logs_enabled =
                        Truthy(Get("save_logs_enabled", BoolValue(FALSE))),
                    !.save_config_enabled =
                        Truthy(Get("save_config_enabled", BoolValue(TRUE)))]
            ELSE s0
        paths ==
            [flags EXCEPT
                !.cli = PyStr(Get("last_cli_path", StrValue(<<>>))),
                !.patches = PyStr(Get("last_patches_path", StrValue(<<>>))),
                !.out = IF v = "gui" \/ apk_path = NoText
                        THEN PyStr(Get("last_output_dir", StrValue(<<>>)))
                        ELSE @]
        exc ==
            CASE config.shape = "error" -> "JSONDecodeError"
              [] config.shape = "list" -> "ValueError"
              [] Truthy(geometry) /\ geometry.ty # "str" -> "TypeError"
              [] Truthy(geometry) /\ GeometryMatch(geometry.s) # 0
                    /\ ~TkAcceptsGeometry(geometry.s) -> "TclError"
              [] OTHER -> "none"
        applied ==
            IF config.shape # "dict" THEN s0
            ELSE IF exc = "none" /\ Truthy(geometry)
                        /\ GeometryMatch(geometry.s) # 0
                 THEN [paths EXCEPT !.window = geometry.s]
                 ELSE paths
    IN IF (v = "modular" /\ ~s0.save_config_enabled) \/ ~has_target THEN s0
       ELSE IF exc = "none" THEN [applied EXCEPT !.log = "info"]
       ELSE IF LoadHandler(exc) = "raise" THEN [applied EXCEPT !.raised = TRUE]
       ELSE [applied EXCEPT !.log = LoadHandler(exc)]

restVars == <<valVars, machine, jobs, retry_count, uiQueue, progress, surfaced,
              workerUiOps, log, now, start_time, scope, recent, mon>>

Session ==
    [save_logs_enabled |-> cm.save_logs_enabled,
     save_config_enabled |-> cm.save_config_enabled,
     cli |-> gui.cli, patches |-> gui.patches, out |-> gui.out,
     window |-> window, log |-> cfg.log, raised |-> cfg.raised]

\* The Preferences Record of a session
RecordOf(s) == [s EXCEPT !.log = "none", !.raised = FALSE]

\* setup_logging: whether a FileHandler is installed.  src/src tests the
\* flag of the ConfigManager; src/gui.py always writes a log file (under
\* ~/.revanced_gui_logs).
setup_logging(v, save_logs_enabled) ==
    IF v = "modular" THEN save_logs_enabled ELSE TRUE

\* ReVancedGUI.__init__: the defaults, setup_logging, then load_config.  The
\* cfg.exit field tells how the session before ended: "close" (the window's
\* close button: on_closing), "quit" (the Exit button, the Exit menu entry:
\* root.quit) or "kill".
Construct(d) == load_config(variant, Defaults, d.has_target, d.target, NoText)

\* Files found at config.json when the program is first started: none, a
\* truncated document, a JSON list, an object written by hand whose
\* geometry Tk refuses, and a document an earlier session saved.
TruncatedFile ==
    << <<"{">>, JsonMember("last_cli_path", JsonString(CliJar)) >>
ListFile == << <<"[">>, <<"]">> >>
HandWrittenFile ==
    json_dump(<< JsonMember("last_cli_path", JsonString(CliJar)),
                 JsonMember("window_geometry", JsonString(WinMoved \o <<"z">>)) >>)
EarlierFile(v) ==
    json_dump(ConfigMembers(v,
        [Defaults EXCEPT !.save_logs_enabled = TRUE, !.cli = CliJar,
                         !.out = OutDir, !.window = WinMoved]))

InitialFiles(v) ==
    { [has_target |-> FALSE, target |-> <<>>, has_temp |-> FALSE, temp |-> <<>>] }
    \cup { [has_target |-> TRUE, target |-> c, has_temp |-> FALSE, temp |-> <<>>] :
              c \in {TruncatedFile, ListFile, HandWrittenFile, EarlierFile(v)} }

CfgInit ==
    /\ variant \in Variants
    /\ disk \in InitialFiles(variant)
    /\ LET s == Construct(disk)
       IN /\ cm = [save_logs_enabled |-> s.save_logs_enabled,
                   save_config_enabled |-> s.save_config_enabled]
          /\ gui = [cli |-> s.cli, patches |-> s.patches, apk |-> NoText,
                    out |-> s.out, outname |-> NoText]
          /\ window = s.window
          /\ cfg = [pc |-> "idle", doc |-> <<>>, written |-> 0,
                    closing |-> FALSE, fresh |-> TRUE, log |-> s.log,
                    raised |-> s.raised, sessions |-> 1, edits |-> 0,
                    faults |-> 0, exit |-> "none",
                    logfile |-> setup_logging(variant, Defaults.save_logs_enabled)]
    /\ lastSave = [status |-> NoSave, rec |-> Defaults]
    /\ machine = NoPsutil(JavaMissing)
    /\ jobs = <<>> /\ retry_count = 0 /\ uiQueue = <<>> /\ progress = FALSE
    /\ surfaced = <<>> /\ workerUiOps = {}
    /\ log = <<>> /\ now = 0 /\ start_time = 0
    /\ scope = [jobs |-> 0, lines |-> 0, codes |-> {}, faults |-> FALSE]
    /\ RecentIdle
    /\ MonIdle
    /\ ValIdle

\* The program is started again after it ended.
Start ==
    /\ cfg.pc = "off"
    /\ cfg.sessions < MaxSessions
    /\ LET s == Construct(disk)
       IN /\ cm' = [save_logs_enabled |-> s.save_logs_enabled,
                    save_config_enabled |-> s.save_config_enabled]
          /\ gui' = [cli |-> s.cli, patches |-> s.patches, apk |-> NoText,
                     out |-> s.out, outname |-> NoText]
          /\ window' = s.window
          /\ cfg' = [cfg EXCEPT !.pc = "idle", !.doc = <<>>, !.written = 0,
                                !.closing = FALSE, !.fresh = TRUE,
                                !.log = s.log, !.raised = s.raised,
                                !.sessions = @ + 1,
                                !.logfile = setup_logging(variant,
                                                Defaults.save_logs_enabled)]
    /\ UNCHANGED <<variant, disk, lastSave, restVars>>

\* A handler's save of the session s.  ConfigManager.save_config returns at
\* once when save_config_enabled is false, and each of its callers tests the
\* same flag before the call; src/gui.py has no such flag.
SaveConfigCall(s, closing) ==
    IF variant = "modular" /\ ~s.save_config_enabled
    THEN /\ cfg' = [cfg EXCEPT !.pc = IF closing THEN "off" ELSE "idle",
                               !.fresh = FALSE, !.log = "none",
                               !.edits = IF closing THEN @ ELSE @ + 1,
                               !.exit = IF closing THEN "close" ELSE @]
         /\ lastSave' = [status |-> "returned", rec |-> RecordOf(s)]
    ELSE /\ cfg' = [cfg EXCEPT !.pc = "mkdir", !.closing = closing,
                               !.doc = json_dump(ConfigMembers(variant, s)),
                               !.written = 0, !.fresh = FALSE, !.log = "none",
                               !.edits = IF closing THEN @ ELSE @ + 1,
                               !.exit = IF closing THEN "close" ELSE @]
         /\ lastSave' = [status |-> "running", rec |-> RecordOf(s)]

CanEdit == cfg.pc = "idle" /\ cfg.edits < MaxEdits

\* The session with the path variables g
SessionWith(g) ==
    [Session EXCEPT !.cli = g.cli, !.patches = g.patches, !.out = g.out]

\* A handler that ends without a save_config call
EndsUnsaved(changed) ==
    /\ cfg' = [cfg EXCEPT !.edits = @ + 1,
                          !.fresh = IF changed THEN FALSE ELSE @,
                          !.log = IF changed THEN "none" ELSE @]
    /\ UNCHANGED lastSave

\* src/src/revanced_gui.py does not import filedialog: each browse_* handler
\* raises NameError at its first line, Tk reports it, and nothing is set or
\* saved.  The handlers of src/gui.py set the variable and save.
NameErrorRaised == UNCHANGED gui /\ EndsUnsaved(FALSE)

browse_cli_jar ==
    /\ CanEdit
    /\ IF variant = "modular" THEN NameErrorRaised
       ELSE /\ gui' = [gui EXCEPT !.cli = CliJar]
            /\ SaveConfigCall([Session EXCEPT !.cli = CliJar], FALSE)
    /\ UNCHANGED <<variant, cm, window, disk, restVars>>

browse_patches ==
    /\ CanEdit
    /\ IF variant = "modular" THEN NameErrorRaised
       ELSE /\ gui' = [gui EXCEPT !.patches = PatchesRvp]
            /\ SaveConfigCall([Session EXCEPT !.patches = PatchesRvp], FALSE)
    /\ UNCHANGED <<variant, cm, window, disk, restVars>>

browse_output ==
    /\ CanEdit
    /\ IF variant = "modular" THEN NameErrorRaised
       ELSE /\ gui' = [gui EXCEPT !.out = OutDir]
            /\ SaveConfigCall([Session EXCEPT !.out = OutDir], FALSE)
    /\ UNCHANGED <<variant, cm, window, disk, restVars>>

\* browse_apk: apk_path.set runs update_output_filename before it returns
browse_apk ==
    /\ CanEdit
    /\ IF variant = "modular" THEN NameErrorRaised
       ELSE LET g == update_output_filename(variant, [gui EXCEPT !.apk = AppApk])
            IN gui' = g /\ SaveConfigCall(SessionWith(g), FALSE)
    /\ UNCHANGED <<variant, cm, window, disk, restVars>>

\* The files dropped on the window
ReadmeTxt == <<"/", "in", "/", "readme", ".", "txt">>
DropFiles == {BadJar, PatchesRvp, AppApk, ReadmeTxt}

\* handle_drop.  src/src saves after a .jar and a .rvp, and
\* update_output_filename saves after a .apk; src/gui.py does not call
\* save_config.
handle_drop ==
    /\ CanEdit
    /\ \E file_path \in DropFiles :
          LET ext == os_path_splitext(file_path).ext
              g == CASE ext = <<".", "jar">> -> [gui EXCEPT !.cli = file_path]
                     [] ext = <<".", "rvp">> -> [gui EXCEPT !.patches = file_path]
                     [] ext = <<".", "apk">> ->
                            update_output_filename(variant,
                                                   [gui EXCEPT !.apk = file_path])
                     [] OTHER -> gui
          IN /\ gui' = g
             /\ IF variant = "modular" /\ ext # <<".", "txt">>
                THEN SaveConfigCall(SessionWith(g), FALSE)
                ELSE EndsUnsaved(ext # <<".", "txt">>)
    /\ UNCHANGED <<variant, cm, window, disk, restVars>>

\* The user types into the entry of the CLI JAR or of the patches file: the
\* entry writes its StringVar, and no handler runs.
TypePath ==
    /\ CanEdit
    /\ \/ gui' = [gui EXCEPT !.cli = GoneJar]
       \/ gui' = [gui EXCEPT !.patches = GoneRvp]
    /\ EndsUnsaved(TRUE)
    /\ UNCHANGED <<variant, cm, window, disk, restVars>>

\* The texts typed into the APK entry
ApkTexts ==
    { NoText, AppApk,
      <<"app", ".", "apk">>,
      <<"/", "app", ".", "apk">>,
      <<"/", "in", "/", "app">>,
      <<"/", "in", "/", ".", "apk">>,
      <<"/", "in", "/", "app", ".", "v2", ".", "apk">>,
      <<"/", "in", ".", "d", "/", "app">>,
      <<"/", "in", "/">> }

\* The user types into the APK entry: the entry writes apk_path, and the
\* trace runs update_output_filename, which in src/src saves.
TypeApk ==
    /\ CanEdit
    /\ \E apk_path \in ApkTexts :
          LET g == update_output_filename(variant, [gui EXCEPT !.apk = apk_path])
          IN /\ gui' = g
             /\ IF variant = "modular" /\ apk_path # NoText
                THEN SaveConfigCall(SessionWith(g), FALSE)
                ELSE EndsUnsaved(TRUE)
    /\ UNCHANGED <<variant, cm, window, disk, restVars>>

\* The Exit button, the Exit entry of the File menu: root.quit.  mainloop
\* returns and main ends; cleanup (on_closing) is bound to the window's
\* close button only.
Quit ==
    /\ cfg.pc = "idle"
    /\ cfg' = [cfg EXCEPT !.pc = "off", !.fresh = FALSE, !.log = "none",
                          !.raised = FALSE, !.exit = "quit"]
    /\ UNCHANGED <<variant, gui, cm, window, disk, lastSave, restVars>>

\* ReVancedGUI.update_preferences, run when a checkbox changes
update_preferences ==
    /\ CanEdit
    /\ variant = "modular"
    /\ \E logs_var \in BOOLEAN, config_var \in BOOLEAN :
          /\ <<logs_var, config_var>> #
                 <<cm.save_logs_enabled, cm.save_config_enabled>>
          /\ cm' = [save_logs_enabled |-> logs_var,
                    save_config_enabled |-> config_var]
          /\ SaveConfigCall([Session EXCEPT !.save_logs_enabled = logs_var,
                                            !.save_config_enabled = config_var],
                            FALSE)
    /\ UNCHANGED <<variant, gui, window, disk, restVars>>

\* The user moves or resizes the main window.
MoveWindow ==
    /\ CanEdit
    /\ \E g \in WindowGeometries \ {window} : window' = g
    /\ cfg' = [cfg EXCEPT !.fresh = FALSE, !.log = "none", !.edits = @ + 1]
    /\ UNCHANGED <<variant, gui, cm, disk, lastSave, restVars>>

\* ReVancedGUI.cleanup; on_closing of src/gui.py
cleanup ==
    /\ cfg.pc = "idle"
    /\ SaveConfigCall(Session, TRUE)
    /\ UNCHANGED <<variant, gui, cm, window, disk, restVars>>

\* save_config, step by step.  "self.config_file.parent.mkdir(exist_ok=True)"
SaveMkdir ==
    /\ cfg.pc = "mkdir"
    /\ cfg' = [cfg EXCEPT !.pc = "open"]
    /\ UNCHANGED <<variant, gui, cm, window, disk, lastSave, restVars>>

SaveTarget_writesInPlace(d, c) ==
    [d EXCEPT !.has_target = TRUE, !.target = c]

\* The file that open(temp_file, 'w') and f.write change: config.tmp
SaveTarget(d, c) ==
    [d EXCEPT !.has_temp = TRUE, !.temp = c]

\* "with open(temp_file, 'w') as f": the file is created or emptied
SaveOpen ==
    /\ cfg.pc = "open"
    /\ disk' = SaveTarget(disk, <<>>)
    /\ cfg' = [cfg EXCEPT !.pc = "dump", !.written = 0]
    /\ UNCHANGED <<variant, gui, cm, window, lastSave, restVars>>

\* json.dump writes the next chunk
SaveWrite ==
    /\ cfg.pc = "dump"
    /\ cfg.written < Len(cfg.doc)
    /\ disk' = SaveTarget(disk, SubSeq(cfg.doc, 1, cfg.written + 1))
    /\ cfg' = [cfg EXCEPT !.written = @ + 1]
    /\ UNCHANGED <<variant, gui, cm, window, lastSave, restVars>>

\* The with block is left and the file closed.
SaveClose ==
    /\ cfg.pc = "dump"
    /\ cfg.written = Len(cfg.doc)
    /\ cfg' = [cfg EXCEPT !.pc = "replace"]
    /\ UNCHANGED <<variant, gui, cm, window, disk, lastSave, restVars>>

\* "temp_file.replace(self.config_file)": one rename
SaveReplace ==
    /\ cfg.pc = "replace"
    /\ disk' = IF disk.has_temp
               THEN [has_target |-> TRUE, target |-> disk.temp,
                     has_temp |-> FALSE, temp |-> <<>>]
               ELSE disk
    /\ cfg' = [cfg EXCEPT !.pc = IF cfg.closing THEN "off" ELSE "idle",
                          !.closing = FALSE, !.doc = <<>>, !.written = 0]
    /\ lastSave' = [lastSave EXCEPT !.status = "returned"]
    /\ UNCHANGED <<variant, gui, cm, window, restVars>>

\* A step of save_config raises OSError.  ConfigManager.save_config logs it
\* (logging.error) and returns.  In src/gui.py the except clause names
\* json.JSONEncodeError, which the json module does not have: AttributeError
\* leaves save_config before anything is logged, and on_closing does not
\* reach root.quit().
SaveFails ==
    /\ cfg.pc \in {"mkdir", "open", "dump", "replace"}
    /\ cfg.faults < MaxFaults
    /\ cfg' = [cfg EXCEPT
                  !.pc = IF cfg.closing /\ variant = "modular"
                         THEN "off" ELSE "idle",
                  !.closing = FALSE, !.doc = <<>>, !.written = 0,
                  !.faults = @ + 1,
                  !.raised = (variant = "gui"),
                  !.log = IF variant = "modular" THEN "error" ELSE "none",
                  !.exit = IF variant = "gui" THEN "none" ELSE @]
    /\ lastSave' = [lastSave EXCEPT !.status = "failed"]
    /\ UNCHANGED <<variant, gui, cm, window, disk, restVars>>

\* The process is killed, at any point of a session.
Kill ==
    /\ cfg.pc # "off"
    /\ cfg' = [cfg EXCEPT !.pc = "off", !.closing = FALSE, !.doc = <<>>,
                          !.written = 0, !.fresh = FALSE, !.log = "none",
                          !.raised = FALSE, !.exit = "kill"]
    /\ lastSave' = IF lastSave.status = "running"
                   THEN [lastSave EXCEPT !.status = "killed"]
                   ELSE lastSave
    /\ UNCHANGED <<variant, gui, cm, window, disk, restVars>>

CfgNext ==
    \/ Start
    \/ browse_cli_jar
    \/ browse_patches
    \/ browse_output
    \/ browse_apk
    \/ handle_drop
    \/ TypePath
    \/ Quit
    \/ update_preferences
    \/ MoveWindow
    \/ cleanup
    \/ SaveMkdir
    \/ SaveOpen
    \/ SaveWrite
    \/ SaveClose
    \/ SaveReplace
    \/ SaveFails
    \/ Kill

SpecCfg == CfgInit /\ [][CfgNext]_vars

\* Writes of the APK path in one session, without faults
OutNext ==
    \/ TypeApk
    \/ handle_drop
    \/ browse_apk
    \/ browse_output
    \/ SaveMkdir
    \/ SaveOpen
    \/ SaveWrite
    \/ SaveClose
    \/ SaveReplace

SpecOut == CfgInit /\ [][OutNext]_vars

-----------------------------------------------------------------------------
(* The recent-files lists of src/gui.py and their file                     *)
(* ~/.revanced_gui_recent.json.  The file's content is the lists written,  *)
(* or <<>> when open(..., 'w') emptied it and json.dump did not complete.  *)

RecentTypes == {"cli", "patches", "apk"}

RecentPaths(t) ==
    IF t = "apk"
    THEN {AppApk, GoneApk, BadApk, NoDexApk, <<"app", ".", "apk">>,
          <<"/", "app", ".", "apk">>}
    ELSE IF t = "cli" THEN {CliJar}
    ELSE {PatchesRvp}

NoRecent == [t \in RecentTypes |-> <<>>]

\* list.remove(x): the list without its first x
RECURSIVE list_remove(_, _)
list_remove(files, x) ==
    IF files = <<>> THEN <<>>
    ELSE IF Head(files) = x THEN Tail(files)
    ELSE <<Head(files)>> \o list_remove(Tail(files), x)

Front_keepsSix(files, file_path) ==
    LET rest == IF \E i \in DOMAIN files : files[i] = file_path
                THEN list_remove(files, file_path) ELSE files
        all == <<file_path>> \o rest
    IN SubSeq(all, 1, Min(Len(all), 6))

\* lines 822-828: "if file_path in ...: remove(file_path)", insert(0,
\* file_path), [:5]
Front(files, file_path) ==
    LET rest == IF \E i \in DOMAIN files : files[i] = file_path
                THEN list_remove(files, file_path) ELSE files
        all == <<file_path>> \o rest
    IN SubSeq(all, 1, Min(Len(all), 5))

\* No file yet, and the lists add_to_recent_files starts from
RecentInit ==
    /\ variant = "gui"
    /\ RecentIdle
    /\ MonIdle
    /\ PrefsIdle
    /\ RunIdle
    /\ ValIdle

\* save_recent_files (lines 745-751): open(..., 'w') raises and the file is
\* as before, or json.dump raises and the file is left empty, or the lists
\* are written.  "except: pass": the exception is dropped.
save_recent_files(lists, outcome) ==
    [recent EXCEPT
     !.lists = lists,
     !.has_file = IF outcome = "open_fails" THEN recent.has_file ELSE TRUE,
     !.file = CASE outcome = "open_fails" -> recent.file
                [] outcome = "dump_fails" -> <<>>
                [] OTHER -> <<lists>>,
     !.caught = recent.caught + (IF outcome = "written" THEN 0 ELSE 1)]

SaveOutcomes ==
    {"written"} \cup (IF recent.caught < MaxFaults
                      THEN {"open_fails", "dump_fails"} ELSE {})

\* add_to_recent_files (lines 816-831)
add_to_recent_files ==
    /\ \E file_type \in RecentTypes, outcome \in SaveOutcomes :
       \E file_path \in RecentPaths(file_type) :
          recent' = [save_recent_files(
                        [recent.lists EXCEPT
                            ![file_type] = Front(@, file_path)],
                        outcome)
                     EXCEPT !.last = [op |-> "add", file_type |-> file_type,
                                      file_path |-> file_path]]
    /\ UNCHANGED <<variant, valVars, runVars, cm, window, disk, cfg, lastSave,
                   mon>>

\* The program is started again: load_recent_files (lines 735-743).  With no
\* file the lists are those add_to_recent_files creates; an emptied file
\* makes json.load raise, and "except:" sets the empty lists.
load_recent_files ==
    /\ recent' = [recent EXCEPT
                    !.lists = IF recent.has_file /\ recent.file # <<>>
                              THEN recent.file[1] ELSE NoRecent,
                    !.caught = IF recent.has_file /\ recent.file = <<>>
                               THEN 1 ELSE 0,
                    !.last = [op |-> "load", file_type |-> "apk",
                              file_path |-> <<>>]]
    /\ UNCHANGED <<variant, valVars, runVars, cm, window, disk, cfg, lastSave,
                   mon>>

RecentNext == add_to_recent_files \/ load_recent_files

SpecRecent == RecentInit /\ [][RecentNext]_vars

-----------------------------------------------------------------------------
(* The CPU sampler: SystemMonitor.start_system_monitor / stop_monitoring   *)
(* (src/src/core/system_monitor.py) and ReVancedGUI.start_system_monitor   *)
(* of src/gui.py.  mon.pc is the position of the monitor thread: "read"    *)
(* before the while test, "sample" in psutil.cpu_percent, "sleep" in       *)
(* time.sleep(5), "exited" after the loop.  mon.reads and mon.emitted      *)
(* count the tests of the flag and the log callbacks since stop_monitoring.*)

MaxIterations == 3
CpuSamples == {50, 90}

MonInit ==
    /\ variant \in Variants
    /\ mon \in {[monitoring |-> FALSE, pc |-> "none", psutil |-> p,
                  iterations |-> 0, stopped |-> FALSE, reads |-> 0,
                  emitted |-> 0] : p \in BOOLEAN}
    /\ PrefsIdle
    /\ RecentIdle
    /\ RunIdle
    /\ ValIdle

monUnchanged == <<variant, valVars, cm, window, disk, cfg, lastSave, recent, gui,
                  machine, jobs, retry_count, progress, surfaced, now,
                  start_time, scope>>

\* start_system_monitor, called once by __init__: the flag is set, then the
\* thread is started
start_system_monitor ==
    /\ mon.pc = "none"
    /\ mon' = [mon EXCEPT !.monitoring = TRUE, !.pc = "read"]
    /\ UNCHANGED <<monUnchanged, log, uiQueue, workerUiOps>>

LoopContinues_ignoresFlag(monitoring) == TRUE

\* "while self.monitoring:"
LoopContinues(monitoring) == monitoring

\* The thread tests the flag
MonRead ==
    /\ mon.pc = "read"
    /\ mon.iterations < MaxIterations
    /\ mon' = [mon EXCEPT
                  !.pc = IF LoopContinues(mon.monitoring)
                         THEN (IF mon.psutil THEN "sample" ELSE "sleep")
                         ELSE "exited",
                  !.iterations = @ + 1,
                  !.reads = IF mon.stopped THEN @ + 1 ELSE @]
    /\ UNCHANGED <<monUnchanged, log, uiQueue, workerUiOps>>

HighCpu(cpu_percent) == <<"High CPU usage: ">> \o IntToStr(cpu_percent) \o <<"%">>

\* psutil.cpu_percent(interval=1) returns; above 80 the log callback is
\* called, which in both variants hands log_message to root.after
MonSample ==
    /\ mon.pc = "sample"
    /\ \E cpu_percent \in CpuSamples :
          IF cpu_percent > 80
          THEN /\ mon' = [mon EXCEPT !.pc = "sleep",
                                     !.emitted = IF mon.stopped THEN @ + 1 ELSE @]
               /\ uiQueue' = Append(uiQueue, PostLog(0, HighCpu(cpu_percent)))
          ELSE /\ mon' = [mon EXCEPT !.pc = "sleep"]
               /\ UNCHANGED uiQueue
    /\ UNCHANGED <<monUnchanged, log, workerUiOps>>

\* time.sleep(5) returns
MonSleep ==
    /\ mon.pc = "sleep"
    /\ mon' = [mon EXCEPT !.pc = "read"]
    /\ UNCHANGED <<monUnchanged, log, uiQueue, workerUiOps>>

\* SystemMonitor.stop_monitoring, called by cleanup; "app.monitoring = False"
\* in on_closing of src/gui.py
stop_monitoring ==
    /\ mon.pc # "none"
    /\ ~mon.stopped
    /\ mon' = [mon EXCEPT !.monitoring = FALSE, !.stopped = TRUE]
    /\ UNCHANGED <<monUnchanged, log, uiQueue, workerUiOps>>

MonNext ==
    \/ start_system_monitor
    \/ MonRead
    \/ MonSample
    \/ MonSleep
    \/ stop_monitoring
    \/ UiRun

SpecMon == MonInit /\ [][MonNext]_vars

-----------------------------------------------------------------------------
(* Properties of the validation pass.                                      *)

ErrorsOfKind(errs, k) == {i \in DOMAIN errs : errs[i].kind = k}

SoundPaths ==
    /\ vin.cli = CliJar /\ vin.patches = PatchesRvp
    /\ vin.apk = AppApk /\ vin.out = OutDir

DiskSufficient ==
    ~vin.m.psutil \/ ~vin.m.diskOk \/ vin.m.free >= 3 * vin.m.apk_size

DetectedMajor ==
    IF vin.m.java.kind = "version" THEN parse_java_version(vin.m.java.ver) ELSE 0

\* C9: a pass in which all four paths exist, disk space is sufficient and the
\* detected runtime has a major version >= 8 (8, 9 and 10 included) returns
\* the empty error list.
C9_Runtime8PlusPasses ==
    (vpc = "done" /\ SoundPaths /\ DiskSufficient /\ DetectedMajor >= 8)
        => vout = <<>>

OnlyApkMissing ==
    /\ vin.cli # NoText /\ path_exists(vin.cli)
    /\ vin.patches # NoText /\ path_exists(vin.patches)
    /\ vin.out # NoText /\ path_exists(vin.out)
    /\ (vin.apk = NoText \/ ~path_exists(vin.apk))

\* C10: a pass in which only the input package path is missing (empty or
\* non-existent) returns a list with exactly one file_not_found entry, and
\* that entry names the APK.
C10_OnlyApkMissing ==
    (vpc = "done" /\ OnlyApkMissing)
        => /\ Cardinality(ErrorsOfKind(vout, "file_not_found")) = 1
           /\ \A i \in ErrorsOfKind(vout, "file_not_found") :
                  vout[i].msg = <<"APK file not found">>

C10_Witness ==
    /\ vpc = "done" /\ OnlyApkMissing /\ vin.apk = GoneApk
    /\ \E i \in DOMAIN vout : vout[i].kind = "file_not_found"

\* C11: when psutil is available and answers and the input package exists,
\* the pass reports an insufficient-disk-space error exactly when the free
\* bytes of the output volume are fewer than three times the package's bytes.
C11_DiskSpaceThreeTimes ==
    (vpc = "done" /\ vin.m.psutil /\ vin.m.diskOk
        /\ vin.apk # NoText /\ path_exists(vin.apk))
        => ((ErrorsOfKind(vout, "insufficient_memory") # {})
                <=> (vin.m.free < 3 * vin.m.apk_size))

\* C26: whenever check_java_installation accepts a runtime and reports the
\* major version M, the major version validate_java_version_compatibility
\* parses from the returned info text is M, and a runtime with M >= 11 (one
\* whose version text has no dot, such as "21", included) passes the Java
\* check of the validator.
C26_ReparseAgrees ==
    (vpc = "done" /\ vin.m.java.kind = "version"
        /\ check_java_installation(vin.m.java).ok)
        => /\ parse_java_version(check_java_installation(vin.m.java).info)
                = DetectedMajor
           /\ DetectedMajor >= 11 =>
                /\ validate_java_version_compatibility(vin.m.java).ok
                /\ ErrorsOfKind(vout, "java_not_found") = {}

\* The text before the first "." of s, and the text after it
FirstDot(s) ==
    IF \E i \in DOMAIN s : s[i] = "."
    THEN CHOOSE i \in DOMAIN s : s[i] = "." /\ \A k \in 1..(i - 1) : s[k] # "."
    ELSE Len(s) + 1

FirstComponent(s) == SubSeq(s, 1, FirstDot(s) - 1)
SecondComponent(s) == FirstComponent(SubSeq(s, FirstDot(s) + 1, Len(s)))

\* The component that holds the major version of a version text
MajorComponent(version) ==
    IF StartsWith(version, <<"1", ".">>) THEN SecondComponent(version)
    ELSE FirstComponent(version)

\* C21: parse_java_version returns the second dot-separated component as
\* the major version for a text in old format (starting with "1."), the
\* first component for any other text, and 0 for every text whose component
\* is no integer; it returns on every text.
C21_MajorVersionParsed ==
    jver.pc = "done" =>
        LET version == Strip(Strip(jver.text, Whitespace), Quote)
            component == PyInt(MajorComponent(version))
        IN /\ jver.major \in Int
           /\ component.ok => jver.major = component.val
           /\ ~component.ok => jver.major = 0

C21_Witness ==
    /\ jver.pc = "done"
    /\ jver.text = <<"1", ".", "8", ".", "0", "_", "2", "9", "1">>
    /\ jver.major = 8

-----------------------------------------------------------------------------
(* Properties of the process runner.                                       *)

Launched(j) == jobs[j].pc = "stream"

RECURSIVE MemoryFlags(_)
MemoryFlags(n) == IF n = 0 THEN <<>> ELSE <<<<"-Xmx2G">>>> \o MemoryFlags(n - 1)

\* C1 as stated: every child launched for a patch job, relaunches included,
\* in both variants, is started with exactly the argument vector
\* java -jar <tool_path> patch -p <patches_path> -o <output_path> <input_path>.
C1_ExactArgv ==
    \A j \in JobIds :
        Launched(j) =>
            jobs[j].cmd = << <<"java">>, <<"-jar">>, gui.cli, <<"patch">>,
                             <<"-p">>, gui.patches, <<"-o">>,
                             jobs[j].output_file, gui.apk >>

\* C1: the first child of a job is started with exactly the argument vector
\* java -jar <tool_path> patch -p <patches_path> -o <output_path> <input_path>;
\* the child of the k-th automatic relaunch of gui.py is started with that
\* vector and k times "-Xmx2G" directly after java; APKPatcher launches one
\* child only.
C1_ArgvUpToMemoryFlags ==
    \A j \in JobIds :
        Launched(j) =>
            /\ jobs[j].cmd =
                   << <<"java">> >> \o MemoryFlags(jobs[j].nlaunch - 1)
                      \o << <<"-jar">>, gui.cli, <<"patch">>, <<"-p">>,
                            gui.patches, <<"-o">>, jobs[j].output_file,
                            gui.apk >>
            /\ variant = "modular" => jobs[j].nlaunch = 1

C1_Witness ==
    \E j \in JobIds :
        /\ variant = "gui" /\ Launched(j) /\ jobs[j].nlaunch = 3
        /\ Len(jobs[j].cmd) = 11

\* C2: when the child exits with code 0, success_callback is invoked and
\* error_callback is not; when it exits with a code c other than 0,
\* error_callback is invoked once with kind patch_mismatch and a message that
\* contains c, and success_callback is not invoked.
C2_ExitCodeClassified ==
    \A j \in JobIds :
        (variant = "modular" /\ jobs[j].pc = "done" /\ jobs[j].rc # NoExit) =>
            IF jobs[j].rc = 0
            THEN jobs[j].succ = 1 /\ jobs[j].errs = <<>>
            ELSE /\ jobs[j].succ = 0
                 /\ jobs[j].errs =
                        << [kind |-> "patch_mismatch",
                            msg |-> <<"Patching failed with return code ">>
                                        \o IntToStr(jobs[j].rc)] >>

\* C3: each call of run_patching invokes exactly one of success_callback and
\* error_callback, exactly once, on every path.
C3_ExactlyOneOutcome ==
    \A j \in JobIds :
        (variant = "modular" /\ jobs[j].pc = "done") =>
            jobs[j].succ + Len(jobs[j].errs) = 1

\* C4 as stated: at most one child process is launched for each invocation of
\* patch.
C4_AtMostOneChild ==
    \A j \in JobIds : jobs[j].nlaunch <= 1

\* C4: a job's first child apart, a child is launched only by the automatic
\* retry of gui.py, after a non-zero exit of the job's previous child; a
\* retry is scheduled only while retry_count < max_retries and adds one to
\* retry_count; APKPatcher launches no second child.
C4_RelaunchOnlyByAutoRetry ==
    [][\A j \in DOMAIN jobs :
          /\ jobs'[j].nlaunch > jobs[j].nlaunch =>
                \/ jobs[j].nlaunch = 0
                \/ /\ variant = "gui"
                   /\ jobs[j].rc \in ExitCodes \ {0}
                   /\ jobs[j].nlaunch = jobs[j].retries
          /\ jobs'[j].retries > jobs[j].retries =>
                /\ variant = "gui"
                /\ retry_count < max_retries
                /\ retry_count' = retry_count + 1]_vars

C4_Witness ==
    \E j \in JobIds :
        /\ variant = "gui" /\ jobs[j].pc = "done"
        /\ jobs[j].nlaunch = 1 + max_retries /\ jobs[j].rc \in ExitCodes \ {0}

\* C5: no function that changes a widget is called on the worker thread; the
\* worker hands every log line and every outcome to root.after.
C5_NoWorkerUiMutation == workerUiOps = {}

Contains(msg, text) ==
    \E i \in 1..(Len(msg) - Len(text) + 1) :
        SubSeq(msg, i, i + Len(text) - 1) = text

\* The worker of job j has ended and the UI thread has run all it was handed
Settled(j) ==
    /\ jobs[j].pc = "done"
    /\ \A i \in DOMAIN uiQueue : uiQueue[i].job # j

\* C12: when launching raises FileNotFoundError the runner reports a failure
\* of kind java_not_found; when anything else is raised while launching,
\* streaming or waiting it reports a failure of kind unknown whose message
\* contains the exception's text; in both cases no exception leaves the
\* worker.
C12_ExceptionsReported ==
    \A j \in JobIds :
        (Settled(j) /\ jobs[j].exc.kind # "none") =>
            /\ ~jobs[j].escaped
            /\ jobs[j].exc.kind = "FileNotFoundError" =>
                    \E i \in DOMAIN jobs[j].errs :
                        jobs[j].errs[i].kind = "java_not_found"
            /\ jobs[j].exc.kind = "Exception" =>
                    \E i \in DOMAIN jobs[j].errs :
                        /\ jobs[j].errs[i].kind = "unknown"
                        /\ Contains(jobs[j].errs[i].msg, jobs[j].exc.text)

\* C13: a run whose tool_path (the file after -jar) does not exist ends with
\* the single outcome java_not_found (the launch failure): it does not stay
\* unfinished, and it does not report success.
C13_MissingToolIsLaunchFailure ==
    \A j \in JobIds :
        (Settled(j) /\ ~jobs[j].tool_found) =>
            /\ jobs[j].succ = 0
            /\ Len(jobs[j].errs) = 1
            /\ jobs[j].errs[1].kind = "java_not_found"

\* The lines of its child's output that the log holds for job j, in order
LinesLogged(j) ==
    LET es == SelectSeq(log, LAMBDA e : e.job = j /\ e.ev = "line")
    IN [i \in DOMAIN es |-> es[i].text]

\* C14: when the child of a job prints lines l1..ln and exits with code 0,
\* the job reports success and the log holds, of the child's output, exactly
\* l1..ln, each once and in the order printed.
C14_LinesForwardedInOrder ==
    \A j \in JobIds :
        (Settled(j) /\ jobs[j].tool_found /\ jobs[j].lines = 0
            /\ jobs[j].rc = 0) =>
            /\ jobs[j].succ = 1
            /\ LinesLogged(j) = [i \in 1..jobs[j].total |-> ChildLine(i)]

\* Every job started has ended and the UI thread has nothing left to run
Quiescent ==
    /\ uiQueue = <<>>
    /\ \A j \in JobIds : jobs[j].pc = "done"

\* C15: after a failure (a rejected request, a non-zero exit, a launch
\* failure or another exception) the progress bar started for the job is not
\* left running: once the workers have ended and the UI thread has run every
\* callback handed to it, the bar is stopped.
C15_ProgressStoppedAfterFailure ==
    (Quiescent /\ \E j \in JobIds : jobs[j].rc # 0) => ~progress

\* The log holds a message with this text before position i
LoggedBefore(i, text) ==
    \E k \in 1..(i - 1) : log[k].ev = "log" /\ log[k].text = text

\* C16: no failure is dropped silently.  An error dialog is shown only
\* after its text was logged; a request the validator rejected, and a job
\* that reported an error, left a message in the log; a failed save of the
\* preferences was logged and not raised; an exception caught while the
\* recent-files lists were saved or loaded left a message in the log.
C16_FailuresLogged ==
    /\ \A i \in DOMAIN log :
            log[i].ev = "showerror" => LoggedBefore(i, log[i].text)
    /\ surfaced # <<>> =>
            \E i \in DOMAIN log : log[i].job = 0 /\ log[i].ev = "log"
    /\ \A j \in JobIds :
            (Settled(j) /\ jobs[j].errs # <<>>) =>
                \E i \in DOMAIN log : log[i].job = j /\ log[i].ev = "log"
    /\ lastSave.status = "failed" => ~cfg.raised
    /\ recent.caught > 0 => \E i \in DOMAIN log : log[i].ev = "log"

HasRemedy(errors) ==
    \A i \in DOMAIN errors : errors[i].kind \in DOMAIN error_solutions(variant)

\* C17: every error kind that validate_inputs returns or that run_patching
\* reports is a key of the error_solutions table of handle_patching_error, so
\* that no error shown carries the fallback text.
C17_EveryKindHasRemedy ==
    /\ HasRemedy(vout)
    /\ HasRemedy(surfaced)
    /\ \A j \in JobIds : HasRemedy(jobs[j].errs)

\* C18: the elapsed time a job reports with its success is positive and is
\* the time from the patch_apk call that started the job to the exit of the
\* child that succeeded, whatever other jobs were started meanwhile and
\* however many automatic retries preceded the success.
C18_ElapsedSinceLaunch ==
    \A j \in JobIds :
        (jobs[j].pc = "done" /\ jobs[j].rc = 0) =>
            /\ jobs[j].elapsed > 0
            /\ jobs[j].elapsed = jobs[j].completed_at - jobs[j].launched_at

InFlight(j) == jobs[j].pc = "stream" /\ jobs[j].nlaunch >= 1

\* C19: patch_apk has no busy guard.  Whenever the request passes validation
\* a further job can be started, whatever the jobs started before are doing;
\* all jobs share one start_time, which is that of the job started last.
C19_NoBusyGuard ==
    /\ ValidationErrors = <<>> => Accepts(ValidationErrors, jobs)
    /\ jobs # <<>> => start_time = jobs[Len(jobs)].launched_at

\* Two jobs in flight at once, each with its child launched, both with
\* entries in the one log, and the first job's start_time overwritten
C19_Witness ==
    /\ Len(jobs) = 2
    /\ InFlight(1) /\ InFlight(2)
    /\ \E i, k \in DOMAIN log : log[i].job = 1 /\ log[k].job = 2
    /\ start_time # jobs[1].launched_at

\* C20: the sampler runs while the monitoring flag is true; once
\* stop_monitoring has cleared the flag the thread leaves the loop at its
\* next test of the flag, and calls the log callback at most once more (in
\* the iteration that was under way) before it does.
C20_SamplerStopsAtNextRead ==
    /\ (mon.pc = "exited") => mon.stopped
    /\ mon.stopped =>
            /\ mon.reads <= 1
            /\ mon.emitted <= 1
            /\ mon.reads = 1 => (mon.pc = "exited")

\* The flag was cleared while a sample was being taken: the callback of that
\* iteration was still made, and the thread left the loop at its next test.
C20_Witness ==
    mon.stopped /\ mon.emitted = 1 /\ mon.reads = 1 /\ mon.pc = "exited"

\* A step is a call of patch_apk when the first entry it adds to the log is
\* not an entry of a job started before: a validation error (job 0) or the
\* start lines of the next job
PatchApkCalled ==
    /\ Len(log') > Len(log)
    /\ log'[Len(log) + 1].job \notin DOMAIN jobs

\* The error dialogs a step shows, in order
ShownErrors ==
    SelectSeq(SubSeq(log', Len(log) + 1, Len(log')),
              LAMBDA e : e.ev = "showerror")

\* C25: patch_apk starts a job (worker thread and child process) if and
\* only if validate_inputs returned the empty list.  When it returned
\* errors, each is shown through the error handler in list order, no job is
\* started, the progress bar is not started and the preferences file is not
\* written.
C25_LaunchIffValid ==
    [][/\ Len(jobs') > Len(jobs)
            => PatchApkCalled /\ ValidationErrors = <<>>
       /\ (PatchApkCalled /\ ValidationErrors = <<>>)
            => /\ Len(jobs') = Len(jobs) + 1
               /\ jobs'[Len(jobs')].pc = "spawn"
       /\ (PatchApkCalled /\ ValidationErrors # <<>>)
            => /\ surfaced' = ValidationErrors
               /\ Len(ShownErrors) = Len(ValidationErrors)
               /\ \A i \in DOMAIN ValidationErrors :
                     ShownErrors[i].text =
                        handle_patching_error(variant, ValidationErrors[i].kind,
                                              ValidationErrors[i].msg)
               /\ jobs' = jobs
               /\ progress' = progress
               /\ disk' = disk
               /\ lastSave' = lastSave]_vars

\* Every job started before has ended and its callbacks have run
AllEnded ==
    /\ \A j \in DOMAIN jobs : jobs[j].pc = "done"
    /\ uiQueue = <<>>

\* C27: in src/gui.py 0 <= retry_count <= max_retries always, and
\* retry_count is 0 when the user starts a job, also a job started after an
\* earlier job succeeded on one of its retries (so that each job started by
\* the user has max_retries automatic retries).
C27_RetryCountZeroAtStart ==
    [][/\ retry_count \in 0..max_retries
       /\ retry_count' \in 0..max_retries
       /\ (variant = "gui" /\ Len(jobs') > Len(jobs) /\ AllEnded)
            => retry_count = 0]_vars

\* C28: in src/gui.py the command of every automatic retry is the original
\* command with exactly one "-Xmx2G" directly after java, however many
\* retries went before.
C28_OneMemoryFlagPerRetry ==
    \A j \in JobIds :
        (variant = "gui" /\ Launched(j) /\ jobs[j].nlaunch >= 2) =>
            jobs[j].cmd =
                << <<"java">>, <<"-Xmx2G">> >>
                   \o Tail(build_command(gui.cli, gui.patches, gui.apk,
                                         jobs[j].output_file))

-----------------------------------------------------------------------------
(* Properties of the preferences file.                                     *)

CompleteDocument(c) ==
    /\ Len(c) >= 2 /\ c[1] = <<"{">> /\ c[Len(c)] = <<"}">>
    /\ \A i \in 2..(Len(c) - 1) : c[i] \notin {<<"{">>, <<"}">>}

\* C6: in every step of a session, a kill included, the file at config.json
\* stays as it was (absent, or the previous document) or becomes the complete
\* document of the save in progress; no part of a document is ever at
\* config.json.
C6_TargetNeverPartial ==
    [][\/ /\ disk'.has_target = disk.has_target
          /\ disk'.target = disk.target
       \/ /\ disk'.has_target
          /\ disk'.target = cfg.doc
          /\ CompleteDocument(disk'.target)]_vars

C6_Witness ==
    /\ lastSave.status = "killed"
    /\ disk.has_temp /\ disk.temp # <<>> /\ ~CompleteDocument(disk.temp)
    /\ disk.has_target /\ CompleteDocument(disk.target)

PlainGeometry(g) == \A i \in DOMAIN g : g[i] \in DigitChars \cup {"x", "+"}

\* What a fresh session is to hold after loading the saved record rec: rec,
\* with the window left at its default when rec's geometry is not of the
\* form WIDTHxHEIGHT+X+Y.
Restored(rec) ==
    [rec EXCEPT !.window = IF PlainGeometry(@) THEN @ ELSE WinDefault]

\* C7 as stated: for any Preferences Record, a save_config followed by
\* load_config in a fresh session yields all fields equal to the originals,
\* an invalid geometry being discarded.
C7_RoundTrip ==
    (variant = "modular" /\ cfg.fresh /\ lastSave.status = "returned")
        => RecordOf(Session) = Restored(lastSave.rec)

\* C7: for any Preferences Record whose save_config is true, a save_config
\* that completes followed by load_config in a fresh session yields all
\* fields equal to the originals, an invalid geometry being discarded.
C7_RoundTripWhenEnabled ==
    (variant = "modular" /\ cfg.fresh /\ lastSave.status = "returned"
        /\ lastSave.rec.save_config_enabled)
        => RecordOf(Session) = Restored(lastSave.rec)

C7_Witness ==
    /\ variant = "modular" /\ cfg.fresh /\ lastSave.status = "returned"
    /\ lastSave.rec.save_config_enabled
    /\ lastSave.rec.window = WinLeftOf /\ lastSave.rec.patches = PatchesRvp
    /\ window = WinDefault /\ gui.patches = PatchesRvp

UnusableFile ==
    \/ ~disk.has_target
    \/ disk.target = TruncatedFile
    \/ disk.target = ListFile

\* C8: load_config never raises to its caller; when config.json is missing,
\* holds malformed JSON or holds JSON that is not an object, every preference
\* field and path variable keeps its default, and in the last two cases a
\* log entry is written.
C8_LoadTolerant ==
    cfg.fresh =>
        /\ ~cfg.raised
        /\ UnusableFile =>
              /\ RecordOf(Session) = RecordOf(Defaults)
              /\ disk.has_target => cfg.log = "warning"

C8_Witness ==
    /\ cfg.fresh /\ disk.has_target /\ disk.target = ListFile
    /\ cfg.log = "warning" /\ gui.cli = NoText

\* C22: the JAR and RVP paths are remembered between sessions.  With the
\* Config setting enabled and no save having failed, however the two paths
\* were last set in a session (browse, drop, typing, restored from the file)
\* and however the session ended (the window's close button, the Exit
\* button, the Exit menu entry), the next session starts with exactly those
\* two paths.
C22_PathsRemembered ==
    [][(/\ variant = "modular"
        /\ cfg.pc = "off" /\ cfg'.pc = "idle"
        /\ cfg.exit \in {"close", "quit"}
        /\ cm.save_config_enabled
        /\ cfg.faults = 0)
       => /\ gui'.cli = gui.cli
          /\ gui'.patches = gui.patches]_vars

\* C23: a session in which save_logs_enabled is true (loaded as true from
\* the preferences file, or switched on through the Logs checkbox) writes
\* its log entries to a log file under logs/; a session in which it is false
\* writes no log file.
C23_LogsSettingWritesFile ==
    (variant = "modular" /\ cfg.pc = "idle")
        => (cfg.logfile <=> cm.save_logs_enabled)

\* The text after the last "/" of a path
BaseName(path) ==
    CHOOSE base \in {SubSeq(path, k + 1, Len(path)) : k \in 0..Len(path)} :
        /\ \A i \in DOMAIN base : base[i] # "/"
        /\ Len(base) < Len(path) => path[Len(path) - Len(base)] = "/"

\* dir names the directory that holds path
IsDirectoryOf(dir, path) ==
    /\ os_path_join(dir, BaseName(path)) = path
    /\ (dir # <<>> /\ dir[Len(dir)] = "/") => \A i \in DOMAIN dir : dir[i] = "/"

\* The extension of a base name starts at position cut: at its last ".",
\* when something other than "." stands before it, or past its end
ExtensionAt(base, cut) ==
    LET dotted(i) == /\ base[i] = "."
                     /\ \A k \in (i + 1)..Len(base) : base[k] # "."
                     /\ \E k \in 1..(i - 1) : base[k] # "."
    IN IF cut <= Len(base) THEN dotted(cut)
       ELSE \A i \in DOMAIN base : ~dotted(i)

C29_SaveFailureContained ==
    [][/\ (lastSave.status = "running" /\ lastSave'.status # "returned")
            => /\ disk'.has_target = disk.has_target
               /\ disk'.target = disk.target
       /\ (lastSave.status = "running" /\ lastSave'.status = "failed")
            => /\ ~cfg'.raised
               /\ cfg'.log = "error"]_vars

NoDuplicate(files) ==
    \A i, k \in DOMAIN files : files[i] = files[k] => i = k

WellKept(lists) ==
    \A t \in RecentTypes : Len(lists[t]) <= 5 /\ NoDuplicate(lists[t])

\* C30: in src/gui.py, starting from empty recent-files lists, after every
\* add_to_recent_files call each type's list has at most 5 entries and no
\* path twice, the path added is at its front, and the paths after it are
\* those the list held before, without the path added, in the order they
\* had, as far as five entries go; the lists of the other types are as they
\* were.
C30_RecentListsMostRecentFirst ==
    [][/\ WellKept(recent.lists)
       /\ WellKept(recent'.lists)
       /\ recent'.last.op = "add" =>
            LET t == recent'.last.file_type
                p == recent'.last.file_path
                before == SelectSeq(recent.lists[t], LAMBDA f : f # p)
                after == recent'.lists[t]
            IN /\ after # <<>> /\ after[1] = p
               /\ Len(after) = Min(5, 1 + Len(before))
               /\ Tail(after) = SubSeq(before, 1, Len(after) - 1)
               /\ \A u \in RecentTypes \ {t} :
                     recent'.lists[u] = recent.lists[u]]_vars

\* A sixth APK was added to a list of five: the file, whose write failed,
\* still holds the path that the new list no longer has
C30_Witness ==
    /\ recent.last.op = "add" /\ recent.last.file_type = "apk"
    /\ Len(recent.lists.apk) = 5
    /\ recent.lists.apk[1] = recent.last.file_path
    /\ recent.has_file /\ recent.file # <<>>
    /\ Len(recent.file[1].apk) = 5
    /\ \E i \in 1..5 :
          \A k \in 1..5 : recent.file[1].apk[i] # recent.lists.apk[k]

=============================================================================
